---- MODULE Spec2Model ----
(***************************************************************************)
(* A model of the llm-to-anthropic proxy: configuration loading and        *)
(* validation (internal/config), the model resolver (ModelManager), the    *)
(* provider clients' credential selection, the Anthropic->OpenAI request   *)
(* translation and the stream translators.                                 *)
(*                                                                         *)
(* Strings are modelled as sequences of tokens: "p/q" is <<"p","/","q">>,  *)
(* "env:K" is <<"env:","K">> and "" is <<>>.  strings.SplitN, Contains,    *)
(* HasPrefix and TrimPrefix are computed on that representation.           *)
(***************************************************************************)
EXTENDS Integers, Sequences, FiniteSets, TLC

VARIABLES
    cfg,        \* the *config.Config being loaded / served ([Port, Providers, Mappings])
    env,        \* the process environment: variable name -> value
    phase,      \* "boot" (before config.Load), "serving" (Load returned cfg), "exited" (Load failed)
    loadErr,    \* the error config.Load returned (NoErr when none)
    reqModel,   \* the model string of the last ParseModel call
    model,      \* the (*Model, error) the last ParseModel call returned
    req,        \* the last request a handler or client was given (body fields and x-api-key)
    resp,       \* the HTTP response written for it
    calls,      \* the upstream HTTP calls issued for it, in order
    logs,       \* the log records written by the last start-up or request
    translator, \* the stream translator function running ("" when none)
    input,      \* the whole upstream streaming body it was given, as a sequence of chunks
    upstream,   \* the part of the body not read yet
    out,        \* the SSE events written to the client so far
    pc,         \* "idle" | "run" (in the read loop) | "done" (the function returned)
    ret,        \* the error the function returned
    msg,        \* what a unary response translator returned or did (NoMessage before that)
    scanner,    \* the goroutine of ParseOpenAIStream: "none" | "scan" | "closeErrs" |
                \* "closeChunks" | "exit"
    chunks,     \* the chunks sent on the chunks channel and not received yet
    errs,       \* the errors in the buffer of the errs channel
    closed,     \* what has been closed, of "chunks", "errs" and the upstream "body"
    nils,       \* the channel variables the translator has set to nil
    pending,    \* the events of the chunk the translator received and has not written yet
    origin,     \* for each event of out, the position in the body of the chunk it is from
    clientGone  \* the client has disconnected: writes to it fail

serveVars == <<cfg, env, phase, loadErr, reqModel, model, req, resp, calls, logs>>
pipeVars == <<scanner, chunks, errs, closed, nils, pending, origin, clientGone>>
streamVars == <<translator, input, upstream, out, pc, ret, msg,
                scanner, chunks, errs, closed, nils, pending, origin, clientGone>>
vars == <<cfg, env, phase, loadErr, reqModel, model, req, resp, calls, logs,
          translator, input, upstream, out, pc, ret, msg,
          scanner, chunks, errs, closed, nils, pending, origin, clientGone>>

\* no ParseOpenAIStream goroutine and no channels exist
NoPipeline ==
    /\ scanner = "none"
    /\ chunks = <<>>
    /\ errs = <<>>
    /\ closed = {}
    /\ nils = {}
    /\ pending = <<>>
    /\ origin = <<>>
    /\ clientGone = FALSE

-----------------------------------------------------------------------------
(* Bounds of the model                                                     *)

\* longest client model string enumerated exhaustively, in tokens ("p/q" has 3)
MaxStrLen == 3
\* most [[providers]] entries in a configuration document
MaxProviders == 2
\* most chunks in an upstream streaming body
MaxChunks == 3

-----------------------------------------------------------------------------
(* Strings                                                                 *)

Slash == "/"
EmptyStr == <<>>

\* the tokens client model strings are built from
Alphabet == {"p", "q", Slash}

RECURSIVE StrOfLen(_)
StrOfLen(n) ==
    IF n = 0 THEN {<<>>}
    ELSE {Append(s, t) : s \in StrOfLen(n - 1), t \in Alphabet}

RECURSIVE StrUpTo(_)
StrUpTo(n) == IF n = 0 THEN StrOfLen(0) ELSE StrOfLen(n) \cup StrUpTo(n - 1)

\* strings.Contains(s, "/")
ContainsSlash(s) == \E i \in 1..Len(s) : s[i] = Slash

\* index of the first "/" of s (0 when there is none)
FirstSlash(s) ==
    IF ContainsSlash(s)
    THEN CHOOSE i \in 1..Len(s) : s[i] = Slash /\ \A j \in 1..(i - 1) : s[j] # Slash
    ELSE 0

\* strings.HasPrefix(s, "env:")
HasEnvPrefix(s) == Len(s) >= 1 /\ s[1] = "env:"

\* strconv / %d formatting of a non-negative integer
Digits == <<"0", "1", "2", "3", "4", "5", "6", "7", "8", "9">>

RECURSIVE Itoa(_)
Itoa(n) ==
    IF n < 0 THEN <<"-">> \o Itoa(0 - n)
    ELSE IF n < 10 THEN <<Digits[n + 1]>> ELSE Itoa(n \div 10) \o <<Digits[(n % 10) + 1]>>

\* fmt.Errorf(format, args...): the format string and its arguments
Err(f, a) == [fmt |-> f, args |-> a, cause |-> <<>>]
NoErr == Err("", <<>>)
\* fmt.Errorf("...: %w", err) and fmt.Sprintf("...: %v", err)
Wrap(f, e) == [fmt |-> f, args |-> <<>>, cause |-> <<e>>]

-----------------------------------------------------------------------------
(* internal/config                                                         *)

\* os.Getenv
Getenv(e, k) == IF k \in DOMAIN e THEN e[k] ELSE EmptyStr

\* ParseModelMapping: strings.SplitN(mapping, "/", 2)
ParseModelMapping(mapping) ==
    IF ContainsSlash(mapping)
    THEN <<SubSeq(mapping, 1, FirstSlash(mapping) - 1),
           SubSeq(mapping, FirstSlash(mapping) + 1, Len(mapping))>>
    ELSE <<EmptyStr, mapping>>

\* Config.GetProviderByName: the index of the first provider of that name, 0 for (nil, false)
GetProviderByName(c, name) ==
    IF \E i \in 1..Len(c.Providers) : c.Providers[i].Name = name
    THEN CHOOSE i \in 1..Len(c.Providers) :
            /\ c.Providers[i].Name = name
            /\ \A j \in 1..(i - 1) : c.Providers[j].Name # name
    ELSE 0

\* parseAPIKey: <<key, bypass>>
parseAPIKey(apiKey, e) ==
    IF apiKey = <<"bypass">> \/ apiKey = <<"forward">> THEN <<EmptyStr, TRUE>>
    ELSE IF HasEnvPrefix(apiKey) THEN <<Getenv(e, Tail(apiKey)), FALSE>>
    ELSE <<apiKey, FALSE>>

\* Config.ParseAPIKeys
ParseAPIKeys(c, e) ==
    [c EXCEPT !.Providers =
        [i \in 1..Len(c.Providers) |->
            [c.Providers[i] EXCEPT
                !.ParsedAPIKey = parseAPIKey(c.Providers[i].APIKey, e)[1],
                !.IsBypass = parseAPIKey(c.Providers[i].APIKey, e)[2]]]]

\* setDefaults
setDefaults(c) == [c EXCEPT !.Port = IF c.Port = 0 THEN 8082 ELSE c.Port]

\* validateProviderAPIKey without the look-up of the environment variable's value
validateProviderAPIKeyNoEnvCheck(p, e) ==
    IF p.APIKey = EmptyStr THEN Err("provider %s: api_key is required", <<p.Name>>)
    ELSE IF p.APIKey = <<"bypass">> \/ p.APIKey = <<"forward">> THEN NoErr
    ELSE IF HasEnvPrefix(p.APIKey) THEN
        IF Tail(p.APIKey) = EmptyStr
        THEN Err("provider %s: env: mode requires an environment variable name", <<p.Name>>)
        ELSE NoErr
    ELSE NoErr

\* Config.validateProviderAPIKey
validateProviderAPIKey(p, e) ==
    IF p.APIKey = EmptyStr THEN Err("provider %s: api_key is required", <<p.Name>>)
    ELSE IF p.APIKey = <<"bypass">> \/ p.APIKey = <<"forward">> THEN NoErr
    ELSE IF HasEnvPrefix(p.APIKey) THEN
        IF Tail(p.APIKey) = EmptyStr
        THEN Err("provider %s: env: mode requires an environment variable name", <<p.Name>>)
        ELSE IF Getenv(e, Tail(p.APIKey)) = EmptyStr
        THEN Err("provider %s: environment variable '%s' is not set or is empty",
                 <<p.Name, Tail(p.APIKey)>>)
        ELSE NoErr
    ELSE NoErr

\* the checks of one provider without the duplicate-name check
validateProviderNoDuplicateCheck(p, i, seen, e) ==
    IF p.Name = EmptyStr THEN Err("provider %d: name is required", <<Itoa(i - 1)>>)
    ELSE IF p.Type = EmptyStr THEN Err("provider %s: type is required", <<p.Name>>)
    ELSE IF p.BaseURL = EmptyStr THEN Err("provider %s: api_base_url is required", <<p.Name>>)
    ELSE IF validateProviderAPIKey(p, e) # NoErr THEN validateProviderAPIKey(p, e)
    ELSE IF p.UseVertexAuth /\ p.VertexProject = EmptyStr
    THEN Err("provider %s: vertex_project is required when use_vertex_auth is true", <<p.Name>>)
    ELSE IF p.UseVertexAuth /\ p.VertexLocation = EmptyStr
    THEN Err("provider %s: vertex_location is required when use_vertex_auth is true", <<p.Name>>)
    ELSE IF Len(p.Models) = 0
    THEN Err("provider %s: models list is required and must not be empty", <<p.Name>>)
    ELSE IF \E j \in 1..Len(p.Models) : p.Models[j] = EmptyStr
    THEN Err("provider %s: model %d: model name cannot be empty",
             <<p.Name, Itoa((CHOOSE j \in 1..Len(p.Models) :
                                /\ p.Models[j] = EmptyStr
                                /\ \A k \in 1..(j - 1) : p.Models[k] # EmptyStr) - 1)>>)
    ELSE NoErr

\* the checks of one provider in Validate's provider loop; seen = providerNames so far
validateProvider(p, i, seen, e) ==
    IF p.Name = EmptyStr THEN Err("provider %d: name is required", <<Itoa(i - 1)>>)
    ELSE IF p.Name \in seen THEN Err("duplicate provider name: %s", <<p.Name>>)
    ELSE IF p.Type = EmptyStr THEN Err("provider %s: type is required", <<p.Name>>)
    ELSE IF p.BaseURL = EmptyStr THEN Err("provider %s: api_base_url is required", <<p.Name>>)
    ELSE IF validateProviderAPIKey(p, e) # NoErr THEN validateProviderAPIKey(p, e)
    ELSE IF p.UseVertexAuth /\ p.VertexProject = EmptyStr
    THEN Err("provider %s: vertex_project is required when use_vertex_auth is true", <<p.Name>>)
    ELSE IF p.UseVertexAuth /\ p.VertexLocation = EmptyStr
    THEN Err("provider %s: vertex_location is required when use_vertex_auth is true", <<p.Name>>)
    ELSE IF Len(p.Models) = 0
    THEN Err("provider %s: models list is required and must not be empty", <<p.Name>>)
    ELSE IF \E j \in 1..Len(p.Models) : p.Models[j] = EmptyStr
    THEN Err("provider %s: model %d: model name cannot be empty",
             <<p.Name, Itoa((CHOOSE j \in 1..Len(p.Models) :
                                /\ p.Models[j] = EmptyStr
                                /\ \A k \in 1..(j - 1) : p.Models[k] # EmptyStr) - 1)>>)
    ELSE NoErr

\* Validate's provider loop from provider i on: the first error, in declaration order
RECURSIVE validateProviders(_, _, _, _)
validateProviders(c, i, seen, e) ==
    IF i > Len(c.Providers) THEN NoErr
    ELSE IF validateProvider(c.Providers[i], i, seen, e) # NoErr
    THEN validateProvider(c.Providers[i], i, seen, e)
    ELSE validateProviders(c, i + 1, seen \cup {c.Providers[i].Name}, e)

\* validateMapping without the provider-existence check
validateMappingNoProviderCheck(c, alias) ==
    LET mapping == c.Mappings[alias]
        providerName == ParseModelMapping(mapping)[1]
        modelName == ParseModelMapping(mapping)[2]
    IN  IF alias = EmptyStr THEN Err("mapping: alias cannot be empty", <<>>)
        ELSE IF mapping = EmptyStr
        THEN Err("mapping: alias '%s' cannot map to empty string", <<alias>>)
        ELSE IF providerName = EmptyStr
        THEN Err("mapping: alias '%s' maps to invalid format '%s' (expected 'provider/model')",
                 <<alias, mapping>>)
        ELSE IF modelName = EmptyStr
        THEN Err("mapping: alias '%s' maps to invalid model name in '%s'", <<alias, mapping>>)
        ELSE NoErr

\* the checks of one alias in Validate's mappings loop
validateMapping(c, alias) ==
    LET mapping == c.Mappings[alias]
        providerName == ParseModelMapping(mapping)[1]
        modelName == ParseModelMapping(mapping)[2]
    IN  IF alias = EmptyStr THEN Err("mapping: alias cannot be empty", <<>>)
        ELSE IF mapping = EmptyStr
        THEN Err("mapping: alias '%s' cannot map to empty string", <<alias>>)
        ELSE IF providerName = EmptyStr
        THEN Err("mapping: alias '%s' maps to invalid format '%s' (expected 'provider/model')",
                 <<alias, mapping>>)
        ELSE IF modelName = EmptyStr
        THEN Err("mapping: alias '%s' maps to invalid model name in '%s'", <<alias, mapping>>)
        ELSE IF GetProviderByName(c, providerName) = 0
        THEN Err("mapping: alias '%s' references non-existent provider '%s'",
                 <<alias, providerName>>)
        ELSE NoErr

\* Config.Validate: the set of errors a run may return.  The mappings loop ranges over a Go
\* map, whose iteration order is not fixed: any offending alias may be the first one met.
Validate(c, e) ==
    IF c.Port < 1 \/ c.Port > 65535 THEN {Err("invalid server port: %d", <<Itoa(c.Port)>>)}
    ELSE IF validateProviders(c, 1, {}, e) # NoErr THEN {validateProviders(c, 1, {}, e)}
    ELSE IF \E a \in DOMAIN c.Mappings : validateMapping(c, a) # NoErr
    THEN {validateMapping(c, a) : a \in {b \in DOMAIN c.Mappings : validateMapping(c, b) # NoErr}}
    ELSE {NoErr}

-----------------------------------------------------------------------------
(* pkg/api/proxy: ModelManager                                             *)

NoModel(e) == [ok |-> FALSE, ID |-> EmptyStr, Provider |-> 0, Name |-> EmptyStr, err |-> e]
OkModel(id, p, name) == [ok |-> TRUE, ID |-> id, Provider |-> p, Name |-> name, err |-> NoErr]

\* ModelManager.modelExists
modelExists(provider, modelName) ==
    \E j \in 1..Len(provider.Models) : provider.Models[j] = modelName

\* parseDirectModel returning the route without checking the provider lookup's result
parseDirectModelNoLookup(c, modelStr) ==
    LET providerName == ParseModelMapping(modelStr)[1]
        modelName == ParseModelMapping(modelStr)[2]
        provider == GetProviderByName(c, providerName)
    IN  IF provider # 0 /\ ~modelExists(c.Providers[provider], modelName)
        THEN NoModel(Err("model '%s' not found in provider '%s'", <<modelName, providerName>>))
        ELSE OkModel(modelStr, provider, modelName)

\* ModelManager.parseDirectModel
parseDirectModel(c, modelStr) ==
    LET providerName == ParseModelMapping(modelStr)[1]
        modelName == ParseModelMapping(modelStr)[2]
        provider == GetProviderByName(c, providerName)
    IN  IF provider = 0 THEN NoModel(Err("provider '%s' not found", <<providerName>>))
        ELSE IF ~modelExists(c.Providers[provider], modelName)
        THEN NoModel(Err("model '%s' not found in provider '%s'", <<modelName, providerName>>))
        ELSE OkModel(modelStr, provider, modelName)

\* parseDefaultModel keeping the last provider that lists the model instead of the first
parseDefaultModelLast(c, modelStr) ==
    IF \E i \in 1..Len(c.Providers) : modelExists(c.Providers[i], modelStr)
    THEN LET i == CHOOSE k \in 1..Len(c.Providers) :
                    /\ modelExists(c.Providers[k], modelStr)
                    /\ \A j \in (k + 1)..Len(c.Providers) : ~modelExists(c.Providers[j], modelStr)
         IN  OkModel(c.Providers[i].Name \o <<Slash>> \o modelStr, i, modelStr)
    ELSE NoModel(Err("model '%s' not found in any provider", <<modelStr>>))

\* ModelManager.parseDefaultModel
parseDefaultModel(c, modelStr) ==
    IF \E i \in 1..Len(c.Providers) : modelExists(c.Providers[i], modelStr)
    THEN LET i == CHOOSE k \in 1..Len(c.Providers) :
                    /\ modelExists(c.Providers[k], modelStr)
                    /\ \A j \in 1..(k - 1) : ~modelExists(c.Providers[j], modelStr)
         IN  OkModel(c.Providers[i].Name \o <<Slash>> \o modelStr, i, modelStr)
    ELSE NoModel(Err("model '%s' not found in any provider", <<modelStr>>))

\* ModelManager.parseSpecialModel
parseSpecialModel(c, modelStr) ==
    IF modelStr \in DOMAIN c.Mappings
    THEN parseDirectModel(c, c.Mappings[modelStr])
    ELSE parseDefaultModel(c, modelStr)

AnthropicModelHaiku == <<"haiku">>
AnthropicModelSonnet == <<"sonnet">>
AnthropicModelOpus == <<"opus">>

\* ModelManager.ParseModel
ParseModel(c, modelStr) ==
    IF ContainsSlash(modelStr) THEN parseDirectModel(c, modelStr)
    ELSE IF modelStr \in {AnthropicModelHaiku, AnthropicModelSonnet, AnthropicModelOpus}
    THEN parseSpecialModel(c, modelStr)
    ELSE IF modelStr \in DOMAIN c.Mappings
    THEN parseDirectModel(c, c.Mappings[modelStr])
    ELSE parseDefaultModel(c, modelStr)

-----------------------------------------------------------------------------
(* Request translation and the provider clients                            *)

\* the fields of an anthropic.MessageRequest body the handler reads, and the x-api-key header
Request(malformed, mdl, maxTokens, nMessages, stream, apiKey) ==
    [malformed |-> malformed, Model |-> mdl, MaxTokens |-> maxTokens, NMessages |-> nMessages,
     Stream |-> stream, apiKey |-> apiKey]

NoRequest == Request(FALSE, EmptyStr, 0, 0, FALSE, EmptyStr)

\* c.Status(status).JSON(anthropic.ErrorResponse{Type: type, ...}) / c.JSON(resp)
Response(status, type, e) == [status |-> status, type |-> type, err |-> e]

NoResponse == Response(0, "", NoErr)

\* openai Translator.RequestToProvider: the model and stream fields of the ChatCompletionRequest
RequestToProvider(r) == [model |-> r.Model, stream |-> r.Stream]

\* translators.TranslateAnthropicToOpenAI
TranslateAnthropicToOpenAI(r, modelName) == [model |-> modelName, stream |-> FALSE]

\* proxy.TranslateAnthropicToAnthropic: the request is passed through
TranslateAnthropicToAnthropic(r) == [model |-> r.Model, stream |-> r.Stream]

\* translators.TranslateAnthropicToGemini: a GeminiRequest has no model field
TranslateAnthropicToGemini(r, modelName) == [model |-> EmptyStr, stream |-> FALSE]

\* one upstream HTTP request: the credential presented, the body's model and stream fields and
\* the model of the URL path; stored and forward are the provider's ParsedAPIKey and IsBypass
Call(kind, stored, forward, key, bodyModel, stream, urlModel) ==
    [kind |-> kind, stored |-> stored, forward |-> forward, key |-> key,
     bodyModel |-> bodyModel, stream |-> stream, urlModel |-> urlModel]

\* the result of c.client.Do and of the status check that follows it
\* (outcome 0: Do returned an error; otherwise the upstream's status code)
doRequest(call, outcome, api) ==
    IF outcome = 0 THEN [err |-> Err("failed to send request: %w", <<>>), calls |-> <<call>>]
    ELSE IF outcome < 200 \/ outcome >= 300
    THEN [err |-> Err("%s API returned status %d: %s", <<api, Itoa(outcome)>>), calls |-> <<call>>]
    ELSE [err |-> NoErr, calls |-> <<call>>]

\* openai Client.SendRequest (provider-based)
OpenAISendRequest(provider, mdl, body, apiKey, outcome) ==
    LET key == IF provider.IsBypass /\ apiKey # EmptyStr THEN apiKey ELSE provider.ParsedAPIKey
    IN  IF key = EmptyStr /\ ~provider.IsBypass
        THEN [err |-> Err("OpenAI API key not provided", <<>>), calls |-> <<>>]
        ELSE doRequest(Call("openai", provider.ParsedAPIKey, provider.IsBypass, key,
                            body.model, body.stream, EmptyStr), outcome, <<"OpenAI">>)

\* openai Client.SendStream (provider-based): reqMap["stream"] = true, reqMap["model"] = model
OpenAISendStream(provider, mdl, body, apiKey, outcome) ==
    LET key == IF provider.IsBypass /\ apiKey # EmptyStr THEN apiKey ELSE provider.ParsedAPIKey
    IN  IF key = EmptyStr /\ ~provider.IsBypass
        THEN [err |-> Err("OpenAI API key not provided", <<>>), calls |-> <<>>]
        ELSE doRequest(Call("openai", provider.ParsedAPIKey, provider.IsBypass, key,
                            IF mdl # EmptyStr THEN mdl ELSE body.model, TRUE, EmptyStr),
                       outcome, <<"OpenAI">>)

\* anthropic Client.SendRequest
AnthropicSendRequest(provider, mdl, body, apiKey, outcome) ==
    LET key == IF provider.IsBypass /\ apiKey # EmptyStr THEN apiKey ELSE provider.ParsedAPIKey
    IN  IF key = EmptyStr /\ ~provider.IsBypass
        THEN [err |-> Err("Anthropic API key not provided", <<>>), calls |-> <<>>]
        ELSE doRequest(Call("anthropic", provider.ParsedAPIKey, provider.IsBypass, key,
                            body.model, body.stream, EmptyStr), outcome, <<"Anthropic">>)

\* anthropic Client.SendStream
AnthropicSendStream(provider, mdl, body, apiKey, outcome) ==
    LET key == IF provider.IsBypass /\ apiKey # EmptyStr THEN apiKey ELSE provider.ParsedAPIKey
    IN  IF key = EmptyStr /\ ~provider.IsBypass
        THEN [err |-> Err("Anthropic API key not provided", <<>>), calls |-> <<>>]
        ELSE doRequest(Call("anthropic", provider.ParsedAPIKey, provider.IsBypass, key,
                            body.model, body.stream, EmptyStr), outcome, <<"Anthropic">>)

\* gemini Client.SendRequest (provider-based): the model is part of the URL
GeminiSendRequest(provider, mdl, body, apiKey, outcome) ==
    LET key == IF provider.IsBypass /\ apiKey # EmptyStr THEN apiKey ELSE provider.ParsedAPIKey
    IN  IF key = EmptyStr /\ ~provider.IsBypass /\ ~provider.UseVertexAuth
        THEN [err |-> Err("Gemini API key not provided", <<>>), calls |-> <<>>]
        ELSE doRequest(Call("gemini", provider.ParsedAPIKey, provider.IsBypass, key,
                            body.model, body.stream, mdl), outcome, <<"Gemini">>)

\* gemini Client.SendStreamRequest (provider-based): builds the request and returns an error
\* without sending it
GeminiSendStreamRequest(provider, mdl, body, apiKey, outcome) ==
    LET key == IF provider.IsBypass /\ apiKey # EmptyStr THEN apiKey ELSE provider.ParsedAPIKey
    IN  IF key = EmptyStr /\ ~provider.IsBypass /\ ~provider.UseVertexAuth
        THEN [err |-> Err("Gemini API key not provided", <<>>), calls |-> <<>>]
        ELSE [err |-> Err("streaming not implemented for fasthttp", <<>>), calls |-> <<>>]

\* the result of c.client.Do and of the statusCode != fasthttp.StatusOK check of the
\* env-configured OpenAI client
legacyDoRequest(call, outcome) ==
    IF outcome = 0 THEN [err |-> Err("failed to send request: %w", <<>>), calls |-> <<call>>]
    ELSE IF outcome # 200
    THEN [err |-> Err("request failed with status %d: %s", <<Itoa(outcome)>>), calls |-> <<call>>]
    ELSE [err |-> NoErr, calls |-> <<call>>]

\* pkg/provider/openai Client.SendRequest (apiKey: cfg.OpenAIKey, read from OPENAI_API_KEY)
LegacySendRequest(storedKey, mdl, body, apiKey, outcome) ==
    LET key == IF apiKey # EmptyStr THEN apiKey ELSE storedKey
    IN  IF key = EmptyStr
        THEN [err |-> Err("OpenAI API key not provided", <<>>), calls |-> <<>>]
        ELSE legacyDoRequest(Call("openai-env", storedKey, FALSE, key,
                                  body.model, body.stream, EmptyStr), outcome)

\* pkg/provider/openai Client.SendStream
LegacySendStream(storedKey, mdl, body, apiKey, outcome) ==
    LET key == IF apiKey # EmptyStr THEN apiKey ELSE storedKey
    IN  IF key = EmptyStr
        THEN [err |-> Err("OpenAI API key not provided", <<>>), calls |-> <<>>]
        ELSE legacyDoRequest(Call("openai-env", storedKey, FALSE, key,
                                  body.model, body.stream, EmptyStr), outcome)

-----------------------------------------------------------------------------
(* internal/server: the request dispatcher                                 *)

\* the two Anthropic->OpenAI request translators of the repository
Translators == {"Translator.RequestToProvider", "translators.TranslateAnthropicToOpenAI"}

\* Server.translateRequest: the translator selected by the provider's type
translateRequest(r, mdl, provider, t) ==
    IF provider.Type = <<"openai">>
    THEN IF t = "Translator.RequestToProvider" THEN RequestToProvider(r)
         ELSE TranslateAnthropicToOpenAI(r, mdl.Name)
    ELSE IF provider.Type = <<"gemini">> THEN TranslateAnthropicToGemini(r, mdl.Name)
    ELSE TranslateAnthropicToAnthropic(r)

\* Server.sendToProvider: the unary call of the client of the provider's type
sendToProvider(provider, mdl, body, apiKey, outcome) ==
    IF provider.Type = <<"openai">> THEN OpenAISendRequest(provider, mdl.Name, body, apiKey, outcome)
    ELSE IF provider.Type = <<"gemini">>
    THEN GeminiSendRequest(provider, mdl.Name, body, apiKey, outcome)
    ELSE AnthropicSendRequest(provider, mdl.Name, body, apiKey, outcome)

\* Server.sendStreamToProvider: the streaming call of the client of the provider's type
sendStreamToProvider(provider, mdl, body, apiKey, outcome) ==
    IF provider.Type = <<"openai">> THEN OpenAISendStream(provider, mdl.Name, body, apiKey, outcome)
    ELSE IF provider.Type = <<"gemini">>
    THEN GeminiSendStreamRequest(provider, mdl.Name, body, apiKey, outcome)
    ELSE AnthropicSendStream(provider, mdl.Name, body, apiKey, outcome)

\* Server.handleProviderError
handleProviderError(e) == Response(500, "internal_error", e)

\* Server.writeStreamError
writeStreamError(e) == Response(500, "", Wrap("error: %v", e))

\* Server.handleNonStreamingMessage
handleNonStreamingMessage(c, r, mdl, t, outcome) ==
    LET provider == c.Providers[mdl.Provider]
        sent == sendToProvider(provider, mdl, translateRequest(r, mdl, provider, t),
                               r.apiKey, outcome)
    IN  IF sent.err # NoErr THEN [resp |-> handleProviderError(sent.err), calls |-> sent.calls]
        ELSE [resp |-> Response(200, "message", NoErr), calls |-> sent.calls]

\* Server.handleStreamingMessage
handleStreamingMessage(c, r, mdl, t, outcome) ==
    LET provider == c.Providers[mdl.Provider]
        sent == sendStreamToProvider(provider, mdl, translateRequest(r, mdl, provider, t),
                                     r.apiKey, outcome)
    IN  IF sent.err # NoErr THEN [resp |-> writeStreamError(sent.err), calls |-> sent.calls]
        ELSE [resp |-> Response(200, "text/event-stream", NoErr), calls |-> sent.calls]

-----------------------------------------------------------------------------
(* Stream translation                                                      *)

\* a nil *string
Nil == "<nil>"

\* one chunk of an OpenAI streaming body: choices[0].delta.content, choices[0].message.content
\* and choices[0].finish_reason (Nil when absent); choices may be empty
OpenAIChunk(hasChoices, delta, message, finish) ==
    [kind |-> "chunk", hasChoices |-> hasChoices, delta |-> delta, message |-> message,
     finish |-> finish]

\* one chunk of a Gemini streaming body: candidates[0].content.parts[*].text and
\* candidates[0].finishReason ("" when absent)
GeminiChunk(parts, finish) == [kind |-> "chunk", parts |-> parts, finish |-> finish]

\* bytes that do not parse as a chunk, and the OpenAI end marker "data: [DONE]"
Invalid == [kind |-> "invalid"]
Done == [kind |-> "done"]

\* an SSE event: the "event:" line ("" when there is none) and, of its data, the fields
\* type, index (-1 when absent), delta.text and stop_reason ("" when absent or null)
Event(event, type, index, text, stopReason) ==
    [event |-> event, type |-> type, index |-> index, text |-> text, stop_reason |-> stopReason]

\* what one iteration of a translator's read loop does: the events it writes, whether the
\* function returns after it, and the error it returns
Iter(events, stop, e) == [events |-> events, stop |-> stop, err |-> e]

StopReasonEndTurn == "end_turn"
StopReasonMaxTokens == "max_tokens"
StopReasonStopSequence == "stop_sequence"

FinishReasonUnspecified == "FINISH_REASON_UNSPECIFIED"
FinishReasonStop == "STOP"
FinishReasonMaxTokens == "MAX_TOKENS"
FinishReasonSafety == "SAFETY"
FinishReasonRecitation == "RECITATION"

\* openai Translator.translateFinishReason
OpenAITranslateFinishReason(reason) ==
    IF reason = Nil THEN StopReasonEndTurn
    ELSE IF reason = "stop" THEN StopReasonEndTurn
    ELSE IF reason = "length" THEN StopReasonMaxTokens
    ELSE IF reason = "content_filter" THEN StopReasonStopSequence
    ELSE StopReasonEndTurn

\* gemini Translator.translateFinishReason
GeminiTranslateFinishReason(reason) ==
    IF reason = FinishReasonStop THEN StopReasonEndTurn
    ELSE IF reason = FinishReasonMaxTokens THEN StopReasonMaxTokens
    ELSE IF reason = FinishReasonSafety THEN StopReasonStopSequence
    ELSE IF reason = FinishReasonRecitation THEN StopReasonStopSequence
    ELSE StopReasonEndTurn

\* the events Translator.StreamToAnthropic writes before its read loop
StreamPrologue ==
    <<Event("message_start", "message", -1, "", ""),
      Event("content_block_start", "", 0, "", "")>>

\* the events Translator.StreamToAnthropic writes on a finish reason
StreamEpilogue(stopReason) ==
    <<Event("content_block_stop", "", 0, "", ""),
      Event("message_delta", "", -1, "", stopReason),
      Event("message_stop", "", -1, "", "")>>

\* translators.TranslateOpenAIStreamToAnthropicSSE over openai.ParseOpenAIStream: one chunk
TranslateOpenAIStreamToAnthropicSSE(item) ==
    IF item.kind = "done" THEN Iter(<<>>, TRUE, NoErr)
    ELSE IF item.kind = "invalid" THEN Iter(<<>>, TRUE, Err("failed to parse chunk: %w", <<>>))
    ELSE IF ~item.hasChoices THEN Iter(<<>>, FALSE, NoErr)
    ELSE IF item.finish # Nil
    THEN Iter(<<Event("", "message_stop", -1, "", item.finish)>>, FALSE, NoErr)
    ELSE IF item.delta # ""
    THEN Iter(<<Event("", "content_block_delta", 0, item.delta, "")>>, FALSE, NoErr)
    ELSE Iter(<<>>, FALSE, NoErr)

\* translators.TranslateGeminiStreamToAnthropicSSE: one line
TranslateGeminiStreamToAnthropicSSE(item) ==
    IF item.kind # "chunk" THEN Iter(<<>>, FALSE, NoErr)
    ELSE Iter((IF Len(item.parts) > 0
               THEN <<Event("", "content_block_delta", 0, item.parts[1], "")>> ELSE <<>>) \o
              (IF item.finish # ""
               THEN <<Event("", "message_stop", -1, "", item.finish)>> ELSE <<>>),
              FALSE, NoErr)

\* openai Translator.StreamToAnthropic: one iteration of the decoder loop
OpenAIStreamToAnthropic(item) ==
    IF item.kind # "chunk"
    THEN Iter(<<>>, TRUE, Err("failed to decode OpenAI stream chunk: %w", <<>>))
    ELSE IF ~item.hasChoices THEN Iter(<<>>, FALSE, NoErr)
    ELSE Iter((IF item.message # ""
               THEN <<Event("content_block_delta", "", 0, item.message, "")>> ELSE <<>>) \o
              (IF item.finish # Nil
               THEN StreamEpilogue(OpenAITranslateFinishReason(item.finish)) ELSE <<>>),
              item.finish # Nil, NoErr)

\* gemini Translator.StreamToAnthropic: one iteration of the decoder loop
GeminiStreamToAnthropic(item) ==
    IF item.kind # "chunk"
    THEN Iter(<<>>, TRUE, Err("failed to decode Gemini stream chunk: %w", <<>>))
    ELSE LET texts == SelectSeq(item.parts, LAMBDA t : t # "")
             finished == item.finish # "" /\ item.finish # FinishReasonUnspecified
         IN  Iter([i \in 1..Len(texts) |-> Event("content_block_delta", "", 0, texts[i], "")] \o
                  (IF finished
                   THEN StreamEpilogue(GeminiTranslateFinishReason(item.finish)) ELSE <<>>),
                  finished, NoErr)

\* one line of an Anthropic streaming body, without its line end
Line(text) == [kind |-> "line", text |-> text]

\* translators.TranslateAnthropicStreamToAnthropicSSE: one line; the lines its write puts on
\* the wire (line + "\n\n" is the line and a blank line). The comment line ": ping" is the
\* only line of the bodies that starts with ":".
TranslateAnthropicStreamToAnthropicSSE(item) ==
    IF item.text = "" \/ item.text = ": ping" THEN Iter(<<>>, FALSE, NoErr)
    ELSE Iter(<<item.text, "">>, FALSE, NoErr)

\* a text as the sequence of its non-empty pieces
Str(s) == IF s = "" THEN <<>> ELSE <<s>>

RECURSIVE Concat(_)
Concat(texts) == IF texts = <<>> THEN <<>> ELSE Head(texts) \o Concat(Tail(texts))

\* the body of an OpenAI chat completion response: whether it is valid JSON, whether choices
\* is non-empty, choices[0].message.content, choices[0].finish_reason (Nil when absent) and
\* whether it has a usage object
OpenAIResponse(valid, hasChoices, content, finish, hasUsage) ==
    [kind |-> IF valid THEN "response" ELSE "invalid", hasChoices |-> hasChoices,
     content |-> content, finish |-> finish, hasUsage |-> hasUsage]

\* the body of a Gemini generateContent response: candidates[0].content.parts[*].text and
\* candidates[0].finishReason ("" when absent)
GeminiResponse(valid, hasCandidates, parts, finish) ==
    [kind |-> IF valid THEN "response" ELSE "invalid", hasCandidates |-> hasCandidates,
     parts |-> parts, finish |-> finish]

\* what a unary translator does: it returns an *anthropic.MessageResponse (the texts of its
\* content blocks and its stop_reason), returns an error, or panics
MessageResponse(content, stopReason) ==
    [kind |-> "message", content |-> content, stop_reason |-> stopReason, err |-> NoErr]
NoMessage == [kind |-> "none", content |-> <<>>, stop_reason |-> "", err |-> NoErr]
Failed(e) == [kind |-> "error", content |-> <<>>, stop_reason |-> "", err |-> e]
Panic == [kind |-> "panic", content |-> <<>>, stop_reason |-> "", err |-> NoErr]

\* translators.TranslateOpenAIToAnthropic
TranslateOpenAIToAnthropic(r) ==
    IF r.kind = "invalid" THEN Failed(Err("failed to parse OpenAI response: %w", <<>>))
    ELSE IF ~r.hasChoices THEN Failed(Err("no choices in OpenAI response", <<>>))
    ELSE MessageResponse(<<r.content>>, IF r.finish = Nil THEN "" ELSE r.finish)

\* openai Translator.ResponseToAnthropic
OpenAIResponseToAnthropic(r) ==
    IF r.kind = "invalid" THEN Failed(Err("failed to unmarshal OpenAI response: %w", <<>>))
    ELSE IF ~r.hasChoices \/ ~r.hasUsage THEN Panic
    ELSE MessageResponse(<<r.content>>, OpenAITranslateFinishReason(r.finish))

\* translators.TranslateGeminiToAnthropic
TranslateGeminiToAnthropic(r) ==
    IF r.kind = "invalid" THEN Failed(Err("failed to parse Gemini response: %w", <<>>))
    ELSE IF ~r.hasCandidates THEN Failed(Err("no candidates in Gemini response", <<>>))
    ELSE MessageResponse(<<IF Len(r.parts) > 0 THEN Str(r.parts[1]) ELSE <<>> >>,
                         IF r.finish # "" THEN r.finish ELSE "end_turn")

\* gemini Translator.extractContentBlocks
extractContentBlocks(parts) ==
    LET texts == SelectSeq(parts, LAMBDA t : t # "")
    IN  [i \in 1..Len(texts) |-> Str(texts[i])]

\* gemini Translator.ResponseToAnthropic
GeminiResponseToAnthropic(r) ==
    IF r.kind = "invalid" THEN Failed(Err("failed to unmarshal Gemini response: %w", <<>>))
    ELSE IF ~r.hasCandidates THEN Failed(Err("no candidates in response", <<>>))
    ELSE MessageResponse(extractContentBlocks(r.parts), GeminiTranslateFinishReason(r.finish))

\* the unary response translator functions of the repository
ResponseTranslators ==
    {"translators.TranslateOpenAIToAnthropic", "openai.Translator.ResponseToAnthropic",
     "translators.TranslateGeminiToAnthropic", "gemini.Translator.ResponseToAnthropic"}

TranslatesOpenAI(t) ==
    t \in {"translators.TranslateOpenAIToAnthropic", "openai.Translator.ResponseToAnthropic"}

\* the stream translator functions of the repository
StreamTranslators ==
    {"translators.TranslateOpenAIStreamToAnthropicSSE",
     "translators.TranslateGeminiStreamToAnthropicSSE",
     "openai.Translator.StreamToAnthropic",
     "gemini.Translator.StreamToAnthropic"}

ReadsOpenAI(t) ==
    t \in {"translators.TranslateOpenAIStreamToAnthropicSSE", "openai.Translator.StreamToAnthropic"}

\* the chunks upstream bodies are built from
OpenAIItems ==
    {OpenAIChunk(TRUE, "t", "", Nil), OpenAIChunk(TRUE, "", "t", Nil),
     OpenAIChunk(TRUE, "", "", "stop"), OpenAIChunk(TRUE, "t", "t", "length"),
     OpenAIChunk(FALSE, "", "", Nil), Invalid, Done}

GeminiItems ==
    {GeminiChunk(<<"t">>, ""), GeminiChunk(<<"", "t", "u">>, ""), GeminiChunk(<<>>, FinishReasonStop),
     GeminiChunk(<<"t">>, FinishReasonMaxTokens), GeminiChunk(<<>>, FinishReasonUnspecified),
     Invalid}

\* the upstream response bodies handed to the unary translators
OpenAIResponses ==
    {OpenAIResponse(TRUE, TRUE, c, f, TRUE) :
        c \in {<<>>, <<"t">>, <<"t", "u">>}, f \in {Nil, "stop", "length", "content_filter", "tool_calls"}} \cup
    {OpenAIResponse(TRUE, FALSE, <<>>, Nil, TRUE), OpenAIResponse(TRUE, TRUE, <<"t">>, "stop", FALSE),
     OpenAIResponse(FALSE, FALSE, <<>>, Nil, FALSE)}

GeminiResponses ==
    {GeminiResponse(TRUE, TRUE, p, f) :
        p \in {<<>>, <<"t">>, <<"t", "u">>, <<"", "t">>},
        f \in {"", FinishReasonStop, FinishReasonMaxTokens, FinishReasonSafety}} \cup
    {GeminiResponse(TRUE, FALSE, <<>>, ""), GeminiResponse(FALSE, FALSE, <<>>, "")}

\* the lines Anthropic streaming bodies are built from: the two lines of an event, the
\* blank line that ends it and a comment line
AnthropicLines == {Line("event: ping"), Line("data: {}"), Line(""), Line(": ping")}

\* a read of the upstream body that fails
ReadError == [kind |-> "readerr"]

\* the chunks the bodies given to ParseOpenAIStream are built from
PipelineItems ==
    {OpenAIChunk(TRUE, "t", "", Nil), OpenAIChunk(TRUE, "", "", "stop"),
     OpenAIChunk(FALSE, "", "", Nil), Invalid, Done, ReadError}

RECURSIVE Bodies(_, _)
Bodies(items, n) ==
    IF n = 0 THEN {<<>>}
    ELSE Bodies(items, n - 1) \cup
         {Append(b, i) : b \in {k \in Bodies(items, n - 1) : Len(k) = n - 1}, i \in items}

-----------------------------------------------------------------------------
(* Configuration documents                                                 *)

\* a [[providers]] entry as toml.Unmarshal leaves it (runtime fields zero)
Provider(name, type, key, models) ==
    [Name |-> name, Type |-> type, BaseURL |-> <<"http://h">>, APIKey |-> key,
     Models |-> models, UseVertexAuth |-> FALSE, VertexProject |-> EmptyStr,
     VertexLocation |-> EmptyStr, ParsedAPIKey |-> EmptyStr, IsBypass |-> FALSE]

ProviderPool ==
    { Provider(<<"p">>, <<"openai">>, <<"sk">>, << <<"q">>, <<"q", Slash, "p">> >>),
      Provider(<<"q">>, <<"anthropic">>, <<"bypass">>, << <<"p">> >>),
      Provider(<<"p">>, <<"openai">>, <<"env:", "K">>, << <<"p">> >>),
      Provider(<<"q">>, <<"openai">>, <<"forward">>, << <<"q">> >>),
      Provider(<<"p">>, <<"gemini">>, <<"bypass">>, << <<"p">> >>),
      Provider(<<"q">>, <<"gemini">>, <<"forward">>, <<>>) }

RECURSIVE ProviderLists(_)
ProviderLists(n) ==
    IF n = 0 THEN {<<>>}
    ELSE ProviderLists(n - 1) \cup
         {Append(l, p) : l \in {k \in ProviderLists(n - 1) : Len(k) = n - 1}, p \in ProviderPool}

MappingPool ==
    { <<>>,
      (<<"haiku">> :> <<"p", Slash, "q">>) @@ (<<"p", "p">> :> <<"q", Slash, "p">>),
      (<<"q">> :> <<"p", Slash, "p">>),
      (<<"p", Slash, "q">> :> <<"q", Slash, "p">>),
      (<<"q", "q">> :> <<"p">>) }

EnvPool ==
    { <<>>,
      (<<"K">> :> <<"secret">>) @@ (<<"OPENAI_API_KEY">> :> <<"sk-env">>) }

\* the x-api-key header values of a request (absent or empty: "")
ClientKeys == {EmptyStr, <<"ck">>}

\* what the upstream does with a call: 0 = no response (transport error or timeout),
\* otherwise the HTTP status it answers with
Outcomes == {0, 200, 500}

\* the model strings of the requests sent to POST /v1/messages
HandlerModels ==
    {<<"p", Slash, "q">>, <<"q", Slash, "q">>, <<"p", Slash, "p">>, <<"haiku">>, <<"p">>,
     <<"q", "q">>}

\* the requests sent to POST /v1/messages: a body that is not JSON, bodies with one invalid
\* field, and well-formed requests
Requests ==
    {Request(TRUE, EmptyStr, 0, 0, FALSE, EmptyStr),
     Request(FALSE, EmptyStr, 16, 1, FALSE, EmptyStr),
     Request(FALSE, <<"p", Slash, "q">>, 0, 1, FALSE, EmptyStr),
     Request(FALSE, <<"p", Slash, "q">>, -1, 1, TRUE, <<"ck">>),
     Request(FALSE, <<"p", Slash, "q">>, 16, 0, FALSE, EmptyStr)} \cup
    {Request(FALSE, m, 16, 1, s, k) : m \in HandlerModels, s \in BOOLEAN, k \in ClientKeys}

\* the requests handed to the env-configured OpenAI client
LegacyRequests ==
    {Request(FALSE, <<"p", Slash, "q">>, 16, 1, s, k) : s \in BOOLEAN, k \in ClientKeys}

\* the client model strings tried against the resolver
ReqStrings ==
    StrUpTo(MaxStrLen) \cup
    {AnthropicModelHaiku, AnthropicModelSonnet, AnthropicModelOpus,
     <<"p", Slash, "q", Slash, "p">>, <<"p", "p">>, <<"q", "q">>}

-----------------------------------------------------------------------------
(* Startup and the resolver                                                *)

Init ==
    /\ cfg \in [Port : {0, 8082}, Providers : ProviderLists(MaxProviders), Mappings : MappingPool]
    /\ env \in EnvPool
    /\ phase = "boot"
    /\ loadErr = NoErr
    /\ reqModel = EmptyStr
    /\ model = NoModel(NoErr)
    /\ req = NoRequest
    /\ resp = NoResponse
    /\ calls = <<>>
    /\ logs = <<>>
    /\ translator = ""
    /\ input = <<>>
    /\ upstream = <<>>
    /\ out = <<>>
    /\ pc = "idle"
    /\ ret = NoErr
    /\ msg = NoMessage
    /\ NoPipeline

\* the [[providers]] entries of the documents given to config.Load: entries that pass
\* validation and entries that break one or two of its rules
LoadProviderPool ==
    { Provider(<<"p">>, <<"openai">>, <<"sk">>, << <<"q">> >>),
      Provider(<<"q">>, <<"anthropic">>, <<"forward">>, << <<"p">> >>),
      Provider(<<"q">>, <<"openai">>, <<"env:", "K">>, << <<"p">> >>),
      Provider(EmptyStr, <<"openai">>, <<"sk">>, << <<"q">> >>),
      Provider(<<"q">>, EmptyStr, <<"sk">>, << <<"q">> >>),
      [Provider(<<"q">>, <<"openai">>, EmptyStr, <<>>) EXCEPT !.BaseURL = EmptyStr],
      Provider(<<"q">>, <<"openai">>, EmptyStr, << <<"q">> >>),
      Provider(<<"q">>, <<"openai">>, <<"env:">>, << <<"q">> >>),
      Provider(<<"q">>, <<"openai">>, <<"sk">>, <<>>),
      Provider(<<"q">>, <<"openai">>, <<"sk">>, << <<"q">>, EmptyStr >>),
      [Provider(<<"q">>, <<"gemini">>, <<"sk">>, <<>>) EXCEPT !.UseVertexAuth = TRUE],
      [Provider(<<"q">>, <<"gemini">>, <<"sk">>, << <<"p">> >>)
          EXCEPT !.UseVertexAuth = TRUE, !.VertexProject = <<"proj">>] }

RECURSIVE LoadProviderLists(_)
LoadProviderLists(n) ==
    IF n = 0 THEN {<<>>}
    ELSE LoadProviderLists(n - 1) \cup
         {Append(l, p) : l \in {k \in LoadProviderLists(n - 1) : Len(k) = n - 1},
                         p \in LoadProviderPool}

\* the [server] port values of those documents (0: the key is absent)
LoadPorts == {0, 8082, 65536, -1}

\* the environments config.Load and the health handler run in
LoadEnvPool == EnvPool \cup {(<<"K">> :> EmptyStr)}

\* the state before config.Load for the documents above
InitLoad ==
    /\ cfg \in [Port : LoadPorts, Providers : LoadProviderLists(MaxProviders),
                 Mappings : MappingPool]
    /\ env \in LoadEnvPool
    /\ phase = "boot"
    /\ loadErr = NoErr
    /\ reqModel = EmptyStr
    /\ model = NoModel(NoErr)
    /\ req = NoRequest
    /\ resp = NoResponse
    /\ calls = <<>>
    /\ logs = <<>>
    /\ translator = ""
    /\ input = <<>>
    /\ upstream = <<>>
    /\ out = <<>>
    /\ pc = "idle"
    /\ ret = NoErr
    /\ msg = NoMessage
    /\ NoPipeline

\* zap.Bool / zap.String / zap.Int: one field of a log record, its value as text
Bool(b) == IF b THEN <<"true">> ELSE <<"false">>
Field(k, v) == [key |-> k, val |-> v, err |-> NoErr]
\* zap.Error(err)
ErrorField(e) == [key |-> "error", val |-> EmptyStr, err |-> e]
\* one record written by the logger (level "stderr": a line runProxy prints to os.Stderr)
LogRecord(level, m, fields) == [level |-> level, msg |-> m, fields |-> fields]

\* the "Provider configuration" record of runProxy that logs the stored key itself
providerRecordWithKey(p) ==
    LogRecord("debug", "Provider configuration",
              <<Field("name", p.Name), Field("type", p.Type), Field("base_url", p.BaseURL),
                Field("bypass", Bool(p.IsBypass)), Field("models", Itoa(Len(p.Models))),
                Field("has_api_key", p.ParsedAPIKey)>>)

\* the "Provider configuration" record runProxy writes for one provider when verbose
providerRecord(p) ==
    LogRecord("debug", "Provider configuration",
              <<Field("name", p.Name), Field("type", p.Type), Field("base_url", p.BaseURL),
                Field("bypass", Bool(p.IsBypass)), Field("models", Itoa(Len(p.Models))),
                Field("has_api_key", Bool(p.ParsedAPIKey # EmptyStr))>>)

\* the records runProxy writes for the configuration c and the error e config.Load returned,
\* with the --verbose flag v, up to and including Server.Start
runProxyLog(c, e, v) ==
    IF e # NoErr
    THEN <<LogRecord("stderr", "Failed to load configuration: %v", <<ErrorField(e)>>)>>
    ELSE <<LogRecord("info", "Starting LLM API proxy",
                     <<Field("port", Itoa(c.Port)), Field("providers", Itoa(Len(c.Providers))),
                       Field("verbose", Bool(v))>>)>>
         \o (IF v
             THEN <<LogRecord("debug", "Configuration loaded",
                              <<Field("host", <<"0.0.0.0">>), Field("port", Itoa(c.Port)),
                                Field("mappings", Itoa(Cardinality(DOMAIN c.Mappings)))>>)>>
                  \o [i \in 1..Len(c.Providers) |-> providerRecord(c.Providers[i])]
             ELSE <<>>)
         \o <<LogRecord("info", "Starting server",
                        <<Field("address", <<"0.0.0.0", ":">> \o Itoa(c.Port))>>)>>

\* config.Load after toml.Unmarshal: setDefaults, ParseAPIKeys, Validate
Load ==
    /\ phase = "boot"
    /\ LET c == ParseAPIKeys(setDefaults(cfg), env)
       IN  \E e \in Validate(c, env), verbose \in BOOLEAN :
              /\ loadErr' = (IF e = NoErr THEN NoErr
                             ELSE Wrap("invalid configuration: %w", e))
              /\ phase' = IF e = NoErr THEN "serving" ELSE "exited"
              /\ cfg' = c
              /\ logs' = runProxyLog(c, IF e = NoErr THEN NoErr
                                        ELSE Wrap("invalid configuration: %w", e), verbose)
    /\ UNCHANGED <<env, reqModel, model, req, resp, calls>>
    /\ UNCHANGED streamVars

\* one call s.modelManager.ParseModel(req.Model)
Resolve ==
    /\ phase = "serving"
    /\ \E m \in ReqStrings :
          /\ reqModel' = m
          /\ model' = ParseModel(cfg, m)
    /\ req' = NoRequest
    /\ resp' = NoResponse
    /\ calls' = <<>>
    /\ logs' = <<>>
    /\ UNCHANGED <<cfg, env, phase, loadErr>>
    /\ UNCHANGED streamVars

\* the "providers" map of handleReady: it reads the env-configured keys of the three
\* built-in providers
readyProviders(e) ==
    (<<"openai">> :> (IF Getenv(e, <<"OPENAI_API_KEY">>) # EmptyStr
                      THEN "configured" ELSE "not_configured")) @@
    (<<"google">> :> (IF Getenv(e, <<"GEMINI_API_KEY">>) # EmptyStr
                         \/ Getenv(e, <<"USE_VERTEX_AUTH">>) = <<"true">>
                      THEN "configured" ELSE "not_configured")) @@
    (<<"anthropic">> :> (IF Getenv(e, <<"ANTHROPIC_API_KEY">>) # EmptyStr
                         THEN "configured" ELSE "not_configured"))

\* the answer of GET /health/ready: the HTTP status and the keys of the JSON report
ReadyReport(status, state, providers) ==
    [status |-> status, type |-> "health", err |-> NoErr,
     report |-> [status |-> state, providers |-> providers]]

\* Server.handleReady
handleReady ==
    /\ phase = "serving"
    /\ resp' = IF \E n \in DOMAIN readyProviders(env) : readyProviders(env)[n] = "configured"
               THEN ReadyReport(200, "ready", readyProviders(env))
               ELSE ReadyReport(503, "not_ready", readyProviders(env))
    /\ req' = NoRequest
    /\ calls' = <<>>
    /\ logs' = <<>>
    /\ UNCHANGED <<cfg, env, phase, loadErr, reqModel, model>>
    /\ UNCHANGED streamVars

\* the parse and validation steps of handleMessages without the max_tokens check
requestErrorNoMaxTokens(r) ==
    IF r.malformed THEN Err("Invalid JSON: %v", <<>>)
    ELSE IF r.Model = EmptyStr THEN Err("model field is required", <<>>)
    ELSE IF r.NMessages = 0 THEN Err("messages field is required and must be non-empty", <<>>)
    ELSE NoErr

\* the parse and validation steps of handleMessages: the message of the 400 answer, NoErr
\* for a request that passes
requestError(r) ==
    IF r.malformed THEN Err("Invalid JSON: %v", <<>>)
    ELSE IF r.Model = EmptyStr THEN Err("model field is required", <<>>)
    ELSE IF r.MaxTokens <= 0 THEN Err("max_tokens must be greater than 0", <<>>)
    ELSE IF r.NMessages = 0 THEN Err("messages field is required and must be non-empty", <<>>)
    ELSE NoErr

\* the records handleMessages itself writes for the request r, up to its dispatch
requestLog(c, r) ==
    IF r.malformed
    THEN <<LogRecord("error", "Failed to parse request", <<ErrorField(requestError(r))>>)>>
    ELSE IF requestError(r) # NoErr THEN <<>>
    ELSE IF ~ParseModel(c, r.Model).ok
    THEN <<LogRecord("error", "Failed to parse model",
                     <<Field("model", r.Model), ErrorField(ParseModel(c, r.Model).err)>>)>>
    ELSE <<LogRecord("info", "Handling message request",
                     <<Field("model", r.Model),
                       Field("provider", c.Providers[ParseModel(c, r.Model).Provider].Name),
                       Field("stream", Bool(r.Stream)),
                       Field("has_api_key", Bool(r.apiKey # EmptyStr))>>)>>

\* the records handleNonStreamingMessage / handleStreamingMessage write for it
dispatchLog(c, r, mdl, t, outcome) ==
    LET provider == c.Providers[mdl.Provider]
        body == translateRequest(r, mdl, provider, t)
        sent == IF r.Stream THEN sendStreamToProvider(provider, mdl, body, r.apiKey, outcome)
                ELSE sendToProvider(provider, mdl, body, r.apiKey, outcome)
    IN  IF sent.err = NoErr THEN <<>>
        ELSE <<LogRecord("error", IF r.Stream THEN "Provider stream request failed"
                                  ELSE "Provider request failed", <<ErrorField(sent.err)>>)>>

\* POST /v1/messages
handleMessages ==
    /\ phase = "serving"
    /\ \E r \in Requests :
          /\ req' = r
          /\ IF requestError(r) # NoErr
             THEN /\ resp' = Response(400, "invalid_request_error", requestError(r))
                  /\ calls' = <<>>
                  /\ reqModel' = EmptyStr
                  /\ model' = NoModel(NoErr)
                  /\ logs' = requestLog(cfg, r)
             ELSE /\ reqModel' = r.Model
                  /\ model' = ParseModel(cfg, r.Model)
                  /\ IF ~ParseModel(cfg, r.Model).ok
                     THEN /\ resp' = Response(400, "invalid_request_error",
                                        Wrap("Invalid model: %v", ParseModel(cfg, r.Model).err))
                          /\ calls' = <<>>
                          /\ logs' = requestLog(cfg, r)
                     ELSE \E t \in Translators, o \in Outcomes :
                            LET done == IF r.Stream
                                        THEN handleStreamingMessage(cfg, r, ParseModel(cfg, r.Model), t, o)
                                        ELSE handleNonStreamingMessage(cfg, r, ParseModel(cfg, r.Model), t, o)
                            IN  /\ resp' = done.resp
                                /\ calls' = done.calls
                                /\ logs' = requestLog(cfg, r)
                                             \o dispatchLog(cfg, r, ParseModel(cfg, r.Model), t, o)
    /\ UNCHANGED <<cfg, env, phase, loadErr>>
    /\ UNCHANGED streamVars

\* one request sent through the env-configured OpenAI client (pkg/provider/openai)
legacySend ==
    /\ phase = "serving"
    /\ \E r \in LegacyRequests, o \in Outcomes :
          LET sent == IF r.Stream
                      THEN LegacySendStream(Getenv(env, <<"OPENAI_API_KEY">>), r.Model,
                                            RequestToProvider(r), r.apiKey, o)
                      ELSE LegacySendRequest(Getenv(env, <<"OPENAI_API_KEY">>), r.Model,
                                             RequestToProvider(r), r.apiKey, o)
          IN  /\ req' = r
              /\ calls' = sent.calls
              /\ resp' = IF sent.err = NoErr THEN Response(200, "message", NoErr)
                         ELSE handleProviderError(sent.err)
    /\ reqModel' = EmptyStr
    /\ model' = NoModel(NoErr)
    /\ logs' = <<>>
    /\ UNCHANGED <<cfg, env, phase, loadErr>>
    /\ UNCHANGED streamVars

Next == Load \/ Resolve \/ handleMessages \/ legacySend

-----------------------------------------------------------------------------
(* A stream translation: the translator is called on an upstream body and   *)
(* runs its read loop one chunk at a time                                   *)

InitStream ==
    /\ cfg = [Port |-> 8082, Providers |-> <<>>, Mappings |-> <<>>]
    /\ env = <<>>
    /\ phase = "serving"
    /\ loadErr = NoErr
    /\ reqModel = EmptyStr
    /\ model = NoModel(NoErr)
    /\ req = NoRequest
    /\ resp = NoResponse
    /\ calls = <<>>
    /\ logs = <<>>
    /\ translator = ""
    /\ input = <<>>
    /\ upstream = <<>>
    /\ out = <<>>
    /\ pc = "idle"
    /\ ret = NoErr
    /\ msg = NoMessage
    /\ NoPipeline

\* the call of a stream translator on an upstream body, up to its read loop
StartStream ==
    /\ pc = "idle"
    /\ \E t \in StreamTranslators :
          \E b \in Bodies(IF ReadsOpenAI(t) THEN OpenAIItems ELSE GeminiItems, MaxChunks) :
             /\ translator' = t
             /\ input' = b
             /\ upstream' = b
             /\ out' = IF t \in {"openai.Translator.StreamToAnthropic",
                                  "gemini.Translator.StreamToAnthropic"}
                       THEN StreamPrologue ELSE <<>>
    /\ pc' = "run"
    /\ ret' = NoErr
    /\ UNCHANGED msg
    /\ UNCHANGED pipeVars
    /\ UNCHANGED serveVars

\* one iteration of the translator's read loop; at the end of the body the function returns
StreamStep ==
    /\ pc = "run"
    /\ IF upstream = <<>>
       THEN /\ pc' = "done"
            /\ UNCHANGED <<upstream, out, ret>>
       ELSE LET item == Head(upstream)
                it == IF translator = "translators.TranslateOpenAIStreamToAnthropicSSE"
                      THEN TranslateOpenAIStreamToAnthropicSSE(item)
                      ELSE IF translator = "translators.TranslateGeminiStreamToAnthropicSSE"
                      THEN TranslateGeminiStreamToAnthropicSSE(item)
                      ELSE IF translator = "openai.Translator.StreamToAnthropic"
                      THEN OpenAIStreamToAnthropic(item)
                      ELSE GeminiStreamToAnthropic(item)
            IN  /\ out' = out \o it.events
                /\ upstream' = Tail(upstream)
                /\ pc' = IF it.stop THEN "done" ELSE "run"
                /\ ret' = it.err
    /\ UNCHANGED <<translator, input, msg>>
    /\ UNCHANGED pipeVars
    /\ UNCHANGED serveVars

\* the call of a unary response translator on the body of an upstream 2xx response
TranslateResponse ==
    /\ pc = "idle"
    /\ \E t \in ResponseTranslators :
          \E r \in (IF TranslatesOpenAI(t) THEN OpenAIResponses ELSE GeminiResponses) :
             LET m == IF t = "translators.TranslateOpenAIToAnthropic"
                      THEN TranslateOpenAIToAnthropic(r)
                      ELSE IF t = "openai.Translator.ResponseToAnthropic"
                      THEN OpenAIResponseToAnthropic(r)
                      ELSE IF t = "translators.TranslateGeminiToAnthropic"
                      THEN TranslateGeminiToAnthropic(r)
                      ELSE GeminiResponseToAnthropic(r)
             IN  /\ translator' = t
                 /\ input' = <<r>>
                 /\ msg' = m
                 /\ ret' = m.err
    /\ pc' = "done"
    /\ UNCHANGED <<upstream, out>>
    /\ UNCHANGED pipeVars
    /\ UNCHANGED serveVars

\* the call of the Anthropic passthrough on an upstream body, up to its scanner loop
StartPassthrough ==
    /\ pc = "idle"
    /\ \E b \in Bodies(AnthropicLines, MaxChunks) :
          /\ input' = b
          /\ upstream' = b
    /\ translator' = "translators.TranslateAnthropicStreamToAnthropicSSE"
    /\ out' = <<>>
    /\ pc' = "scan"
    /\ ret' = NoErr
    /\ UNCHANGED msg
    /\ UNCHANGED pipeVars
    /\ UNCHANGED serveVars

\* one iteration of the passthrough's scanner loop; at the end of the body it returns
PassthroughStep ==
    /\ pc = "scan"
    /\ IF upstream = <<>>
       THEN /\ pc' = "done"
            /\ UNCHANGED <<upstream, out, ret>>
       ELSE LET it == TranslateAnthropicStreamToAnthropicSSE(Head(upstream))
            IN  /\ out' = out \o it.events
                /\ upstream' = Tail(upstream)
                /\ pc' = IF it.stop THEN "done" ELSE "scan"
                /\ ret' = it.err
    /\ UNCHANGED <<translator, input, msg>>
    /\ UNCHANGED pipeVars
    /\ UNCHANGED serveVars

-----------------------------------------------------------------------------
(* TranslateOpenAIStreamToAnthropicSSE and the goroutine of ParseOpenAIStream *)

\* a send on a channel with a buffer of one would block only behind a chunk already waiting
sendBlocksBuffered(inflight) == Len(inflight) > 1

\* chunks := make(chan *StreamChunk): the goroutine's send "chunks <- &chunk" returns only
\* when the translator has received the chunk
sendBlocks(inflight) == inflight # <<>>

\* the error of a write to a client that is gone
ErrWrite == Err("write: broken pipe", <<>>)

\* streamReader.Close: what the Close of the body the client returned closes ("return nil")
streamReaderClose == {}

\* TranslateOpenAIStreamToAnthropicSSE calls ParseOpenAIStream, which starts the goroutine
StartPipeline ==
    /\ pc = "idle"
    /\ \E b \in Bodies(PipelineItems, MaxChunks) :
          /\ input' = b
          /\ upstream' = b
    /\ translator' = "translators.TranslateOpenAIStreamToAnthropicSSE"
    /\ out' = <<>>
    /\ pc' = "select"
    /\ ret' = NoErr
    /\ scanner' = "scan"
    /\ UNCHANGED <<msg, chunks, errs, closed, nils, pending, origin, clientGone>>
    /\ UNCHANGED serveVars

\* the goroutine: one scanner.Scan and what it does with the line, up to its next blocking
\* point (the send on chunks blocks the next Scan while sendBlocks holds)
Scan ==
    /\ scanner = "scan"
    /\ ~sendBlocks(chunks)
    /\ IF "body" \in closed
       THEN /\ errs' = Append(errs, Err("scanner error: %w", <<>>))
            /\ scanner' = "closeErrs"
            /\ UNCHANGED <<upstream, chunks>>
       ELSE IF upstream = <<>>
       THEN /\ scanner' = "closeErrs"
            /\ UNCHANGED <<upstream, chunks, errs>>
       ELSE /\ upstream' = Tail(upstream)
            /\ LET item == Head(upstream)
                   n == Len(input) - Len(upstream) + 1
               IN  IF item.kind = "done"
                   THEN /\ scanner' = "closeErrs"
                        /\ UNCHANGED <<chunks, errs>>
                   ELSE IF item.kind = "invalid"
                   THEN /\ errs' = Append(errs, Err("failed to parse chunk: %w", <<>>))
                        /\ scanner' = "closeErrs"
                        /\ UNCHANGED chunks
                   ELSE IF item.kind = "readerr"
                   THEN /\ errs' = Append(errs, Err("scanner error: %w", <<>>))
                        /\ scanner' = "closeErrs"
                        /\ UNCHANGED chunks
                   ELSE /\ chunks' = Append(chunks, [n |-> n, item |-> item])
                        /\ UNCHANGED <<scanner, errs>>
    /\ UNCHANGED <<translator, input, out, pc, ret, msg, closed, nils, pending, origin,
                   clientGone>>
    /\ UNCHANGED serveVars

\* the goroutine returns: "defer close(errs)" runs first
CloseErrs ==
    /\ scanner = "closeErrs"
    /\ closed' = closed \cup {"errs"}
    /\ scanner' = "closeChunks"
    /\ UNCHANGED <<translator, input, upstream, out, pc, ret, msg, chunks, errs, nils,
                   pending, origin, clientGone>>
    /\ UNCHANGED serveVars

\* then "defer close(chunks)", and the goroutine ends
CloseChunks ==
    /\ scanner = "closeChunks"
    /\ closed' = closed \cup {"chunks"}
    /\ scanner' = "exit"
    /\ UNCHANGED <<translator, input, upstream, out, pc, ret, msg, chunks, errs, nils,
                   pending, origin, clientGone>>
    /\ UNCHANGED serveVars

\* the loop's exit test after a select case that set a channel variable to nil
afterNil(n) == IF n = {"chunks", "errs"} THEN "done" ELSE "select"

\* select, case chunk, ok := <-chunks: a chunk is received and translated, or the channel
\* is found closed
RecvChunk ==
    /\ pc = "select"
    /\ "chunks" \notin nils
    /\ IF chunks # <<>>
       THEN LET c == Head(chunks)
                events == TranslateOpenAIStreamToAnthropicSSE(c.item).events
            IN  /\ chunks' = Tail(chunks)
                /\ pending' = [i \in 1..Len(events) |-> [n |-> c.n, event |-> events[i]]]
                /\ pc' = IF events = <<>> THEN "select" ELSE "write"
                /\ UNCHANGED nils
       ELSE /\ "chunks" \in closed
            /\ nils' = nils \cup {"chunks"}
            /\ pc' = afterNil(nils \cup {"chunks"})
            /\ UNCHANGED <<chunks, pending>>
    /\ UNCHANGED <<translator, input, upstream, out, ret, msg, scanner, errs, closed, origin,
                   clientGone>>
    /\ UNCHANGED serveVars

\* select, case err, ok := <-errs: the error is returned, or the channel is found closed
RecvErr ==
    /\ pc = "select"
    /\ "errs" \notin nils
    /\ IF errs # <<>>
       THEN /\ errs' = Tail(errs)
            /\ ret' = Head(errs)
            /\ pc' = "done"
            /\ UNCHANGED nils
       ELSE /\ "errs" \in closed
            /\ nils' = nils \cup {"errs"}
            /\ pc' = afterNil(nils \cup {"errs"})
            /\ UNCHANGED <<errs, ret>>
    /\ UNCHANGED <<translator, input, upstream, out, msg, scanner, chunks, closed, pending,
                   origin, clientGone>>
    /\ UNCHANGED serveVars

\* writeSSE for the chunk received: a failed write makes the translator return its error
Write ==
    /\ pc = "write"
    /\ IF clientGone
       THEN /\ ret' = ErrWrite
            /\ pc' = "done"
            /\ UNCHANGED <<out, origin, pending>>
       ELSE /\ out' = out \o [i \in 1..Len(pending) |-> pending[i].event]
            /\ origin' = origin \o [i \in 1..Len(pending) |-> pending[i].n]
            /\ pending' = <<>>
            /\ pc' = "select"
            /\ UNCHANGED ret
    /\ UNCHANGED <<translator, input, upstream, msg, scanner, chunks, errs, closed, nils,
                   clientGone>>
    /\ UNCHANGED serveVars

\* the client goes away while the stream is being translated
Disconnect ==
    /\ pc \in {"select", "write"}
    /\ ~clientGone
    /\ clientGone' = TRUE
    /\ UNCHANGED <<translator, input, upstream, out, pc, ret, msg, scanner, chunks, errs,
                   closed, nils, pending, origin>>
    /\ UNCHANGED serveVars

\* handleStreamingMessage returns after the translator: its "defer stream.Close()" runs
Close ==
    /\ pc = "done"
    /\ scanner # "none"
    /\ closed' = closed \cup streamReaderClose
    /\ pc' = "closed"
    /\ UNCHANGED <<translator, input, upstream, out, ret, msg, scanner, chunks, errs, nils,
                   pending, origin, clientGone>>
    /\ UNCHANGED serveVars

NextPipeline ==
    \/ StartPipeline \/ Scan \/ CloseErrs \/ CloseChunks
    \/ RecvChunk \/ RecvErr \/ Write \/ Disconnect \/ Close

SpecPipeline == InitStream /\ [][NextPipeline]_vars

NextStream ==
    StartStream \/ StreamStep \/ TranslateResponse \/ StartPassthrough \/ PassthroughStep

SpecStream == InitStream /\ [][NextStream]_vars

Spec == Init /\ [][Next]_vars

NextLoad == Load \/ handleReady

SpecLoad == InitLoad /\ [][NextLoad]_vars

-----------------------------------------------------------------------------
(* Properties of the resolver                                              *)

\* a ParseModel call has returned
Resolved == model.ok \/ model.err # NoErr

\* the names of the declared providers
Declared(c) == {c.Providers[i].Name : i \in 1..Len(c.Providers)}

\* the resolver returned the route (provider named b, upstream model m)
IsRoute(b, m) ==
    /\ model.ok
    /\ model.Provider \in 1..Len(cfg.Providers)
    /\ cfg.Providers[model.Provider].Name = b
    /\ model.Name = m

ErrUnknownBackend == "provider '%s' not found"
ErrUnknownModel == "model '%s' not found in any provider"

\* C1: a model string M containing '/' is split on its first '/' into b and m (b has no '/',
\* b/m = M); when b is a declared provider the result is the route (b, m) (required here
\* only of a non-empty m, the form the resolver's contract gives a model name), otherwise
\* resolution fails with the unknown-provider error.
C1_SplitOnFirstSlash ==
    (Resolved /\ ContainsSlash(reqModel)) =>
        \E i \in 1..Len(reqModel) :
            LET b == SubSeq(reqModel, 1, i - 1)
                m == SubSeq(reqModel, i + 1, Len(reqModel))
            IN  /\ reqModel[i] = Slash
                /\ ~ContainsSlash(b)
                /\ IF b \in Declared(cfg) THEN (m # EmptyStr => IsRoute(b, m))
                   ELSE ~model.ok /\ model.err.fmt = ErrUnknownBackend

\* C2: resolving b/m for a declared provider b and a non-empty model name m succeeds with the
\* route (b, m) whether or not m is in the provider's models list.
C2_UnlistedModelAccepted ==
    \A b \in Declared(cfg) :
        LET m == SubSeq(reqModel, Len(b) + 2, Len(reqModel))
        IN  (Resolved /\ m # EmptyStr /\ reqModel = b \o <<Slash>> \o m) => IsRoute(b, m)

\* C3: in an accepted configuration, resolving an alias key yields a route whose provider is
\* the part of the alias's value before its first '/' and whose model is the part after it.
C3_AliasResolvesToItsValue ==
    (Resolved /\ reqModel \in DOMAIN cfg.Mappings) =>
        LET v == cfg.Mappings[reqModel]
        IN  \E i \in 1..Len(v) :
                /\ v[i] = Slash
                /\ ~ContainsSlash(SubSeq(v, 1, i - 1))
                /\ IsRoute(SubSeq(v, 1, i - 1), SubSeq(v, i + 1, Len(v)))

\* C4 (as stated): a model string without '/' that is not an alias key fails with the
\* unknown-model error and produces no route.
C4_BareModelFails ==
    (Resolved /\ ~ContainsSlash(reqModel) /\ reqModel \notin DOMAIN cfg.Mappings) =>
        (~model.ok /\ model.err.fmt = ErrUnknownModel)

\* C4 (amended): a model string M without '/' that is not an alias key resolves to the route
\* (first declared provider whose models list contains M, M); it fails with the unknown-model
\* error, and produces no route, exactly when no declared provider lists M.
C4_BareModelFirstListingProvider ==
    (Resolved /\ ~ContainsSlash(reqModel) /\ reqModel \notin DOMAIN cfg.Mappings) =>
        LET listing == {i \in 1..Len(cfg.Providers) :
                            \E j \in 1..Len(cfg.Providers[i].Models) :
                                cfg.Providers[i].Models[j] = reqModel}
        IN  IF listing = {}
            THEN ~model.ok /\ model.err.fmt = ErrUnknownModel
            ELSE /\ model.ok
                 /\ model.Provider \in listing
                 /\ \A i \in listing : model.Provider <= i
                 /\ model.Name = reqModel

C4_Witness ==
    /\ Resolved /\ ~ContainsSlash(reqModel) /\ reqModel \notin DOMAIN cfg.Mappings
    /\ model.ok /\ model.Provider = 1 /\ Len(cfg.Providers) = 2
    /\ \E j \in 1..Len(cfg.Providers[2].Models) : cfg.Providers[2].Models[j] = reqModel

\* C5: every route the resolver returns refers to a provider of the configuration's
\* declared provider list.
C5_RouteBackendDeclared ==
    (Resolved /\ model.ok) =>
        /\ model.Provider \in 1..Len(cfg.Providers)
        /\ cfg.Providers[model.Provider].Name \in Declared(cfg)

C5_Witness ==
    /\ Resolved /\ model.ok /\ ContainsSlash(reqModel)
    /\ model.Provider = 2

\* the alias value of a names a provider that is not declared
AliasToUndeclared(c, a) ==
    /\ ContainsSlash(c.Mappings[a])
    /\ SubSeq(c.Mappings[a], 1, FirstSlash(c.Mappings[a]) - 1) \notin Declared(c)

\* C6 (as stated): a configuration with an alias whose value names an undeclared provider is
\* rejected by validation, and in an accepted configuration resolving an alias key never
\* fails on the provider lookup.
C6_AliasLookupNeverFails ==
    /\ (phase = "serving" => \A a \in DOMAIN cfg.Mappings : ~AliasToUndeclared(cfg, a))
    /\ (Resolved /\ reqModel \in DOMAIN cfg.Mappings) => model.err.fmt # ErrUnknownBackend

\* C6 (amended): a configuration with an alias whose value names an undeclared provider is
\* rejected by validation, and in an accepted configuration resolving an alias key that
\* contains no '/' never fails on the provider lookup.
C6_SlashFreeAliasLookupNeverFails ==
    /\ (phase = "serving" => \A a \in DOMAIN cfg.Mappings : ~AliasToUndeclared(cfg, a))
    /\ (Resolved /\ reqModel \in DOMAIN cfg.Mappings /\ ~ContainsSlash(reqModel))
            => model.err.fmt # ErrUnknownBackend

C6_Witness ==
    /\ Resolved /\ reqModel \in DOMAIN cfg.Mappings /\ ~ContainsSlash(reqModel)
    /\ model.ok
    /\ Len(cfg.Providers) = 2

-----------------------------------------------------------------------------
(* Properties of the credential selection and of the upstream request      *)

\* POST /v1/messages has answered a request that the resolver routed
Routed == resp.status # 0 /\ model.ok

-----------------------------------------------------------------------------
(* Properties of the translated stream                                     *)

\* the name of an event: its "event:" line, or the type of its data when it has none
EventName(e) == IF e.event # "" THEN e.event ELSE e.type

\* the event names of a complete stream with n deltas
FullSequence(n) ==
    <<"message_start", "content_block_start">> \o
    [i \in 1..n |-> "content_block_delta"] \o
    <<"content_block_stop", "message_delta", "message_stop">>

\* the chunk carries a finish signal
IsFinish(item) ==
    /\ item.kind = "chunk"
    /\ IF "parts" \in DOMAIN item
       THEN item.finish # "" /\ item.finish # FinishReasonUnspecified
       ELSE item.hasChoices /\ item.finish # Nil

\* the upstream emitted a finish signal after well-formed chunks only
UpstreamFinished ==
    \E i \in 1..Len(input) :
        /\ IsFinish(input[i])
        /\ \A j \in 1..(i - 1) : input[j].kind = "chunk"

\* the upstream closed cleanly without a finish signal
UpstreamClosedClean ==
    \A i \in 1..Len(input) : input[i].kind = "chunk" /\ ~IsFinish(input[i])

\* the events written are exactly the complete sequence, on block 0, with a stop reason
WroteFullSequence ==
    \E n \in 0..Len(out) :
        /\ Len(out) = n + 5
        /\ \A i \in 1..Len(out) : EventName(out[i]) = FullSequence(n)[i]
        /\ \A i \in 2..(n + 3) : out[i].index = 0
        /\ out[n + 4].stop_reason # ""

\* the events written are a prefix of a complete sequence
WrotePrefix ==
    \E n \in 0..Len(out) :
        /\ Len(out) <= n + 5
        /\ \A i \in 1..Len(out) : EventName(out[i]) = FullSequence(n)[i]

\* C10: when the upstream emits a finish signal the events written to the client are exactly
\* message_start, content_block_start(0), content_block_delta(0)*, content_block_stop(0),
\* message_delta with the stop reason, message_stop; when the upstream closes cleanly without a
\* finish signal they are a prefix of that sequence.
C10_EventOrder ==
    (pc = "done") =>
        /\ UpstreamFinished => WroteFullSequence
        /\ UpstreamClosedClean => WrotePrefix

\* the chunks the read loop has taken from the upstream body so far
Consumed == SubSeq(input, 1, Len(input) - Len(upstream))

\* the last event written has the given name
LastEventIs(name) == out # <<>> /\ EventName(out[Len(out)]) = name

\* C11: when the upstream reaches end-of-stream without a finish signal, the translator has
\* written content_block_stop, message_delta with stop_reason end_turn and message_stop, in
\* that order, as its last events when it returns.
C11_ClosesStreamAtEOF ==
    (translator \in StreamTranslators /\ pc = "done" /\ ret = NoErr /\ UpstreamClosedClean) =>
        /\ Len(out) >= 3
        /\ EventName(out[Len(out) - 2]) = "content_block_stop"
        /\ EventName(out[Len(out) - 1]) = "message_delta"
        /\ out[Len(out) - 1].stop_reason = StopReasonEndTurn
        /\ EventName(out[Len(out)]) = "message_stop"

\* an OpenAI chunk with a non-null finish_reason has been processed (after well-formed
\* chunks only)
FinishProcessed ==
    /\ ReadsOpenAI(translator)
    /\ \E i \in 1..Len(Consumed) :
          /\ IsFinish(Consumed[i])
          /\ \A j \in 1..(i - 1) : Consumed[j].kind = "chunk"

\* C12: once an OpenAI chunk with a non-null finish_reason has been processed, message_stop
\* is the last event written, whatever chunks follow it in the upstream body.
C12_FinishTerminatesStream ==
    FinishProcessed => LastEventIs("message_stop")

\* decoding the upstream body has failed: a chunk that does not parse has been read
DecodeFailed ==
    /\ translator \in StreamTranslators
    /\ \E i \in 1..Len(Consumed) : Consumed[i].kind = "invalid"

\* C15: when decoding the upstream stream fails mid-stream, the last event the translator
\* has written when it returns is an 'error' event.
C15_ErrorEventOnUpstreamFailure ==
    (pc = "done" /\ DecodeFailed) => LastEventIs("error")

\* the stop_reason owed to the client for an OpenAI finish reason
ExpectedStopReason(f) ==
    CASE f = "stop" -> "end_turn"
      [] f = "length" -> "max_tokens"
      [] f = "content_filter" -> "stop_sequence"
      [] OTHER -> "end_turn"

\* the events written so far that carry a stop_reason
StopEvents == SelectSeq(out, LAMBDA e : e.stop_reason # "")

\* the first chunk read that carries a finish reason
FirstFinish == Consumed[CHOOSE i \in 1..Len(Consumed) :
                           /\ IsFinish(Consumed[i])
                           /\ \A j \in 1..(i - 1) : ~IsFinish(Consumed[j])]

\* C17: the stop_reason delivered for an OpenAI finish reason, in the message a unary
\* translator returns and in the first stop event a stream translator writes, is end_turn
\* for stop, max_tokens for length, stop_sequence for content_filter and end_turn otherwise.
C17_FinishReasonMapped ==
    /\ (translator \in ResponseTranslators /\ TranslatesOpenAI(translator) /\ msg.kind = "message")
          => msg.stop_reason = ExpectedStopReason(input[1].finish)
    /\ FinishProcessed
          => /\ StopEvents # <<>>
             /\ StopEvents[1].stop_reason = ExpectedStopReason(FirstFinish.finish)

\* the upstream output of a streaming body as the upstream reports it in a unary response:
\* OpenAI's text is the concatenation of the chunks' delta.content, Gemini's parts are the
\* parts of all chunks; the finish reason is the one of the last chunk
RECURSIVE DeltaTexts(_)
DeltaTexts(body) ==
    IF body = <<>> THEN <<>>
    ELSE (IF Head(body).hasChoices THEN Str(Head(body).delta) ELSE <<>>) \o DeltaTexts(Tail(body))

RECURSIVE AllParts(_)
AllParts(body) == IF body = <<>> THEN <<>> ELSE Head(body).parts \o AllParts(Tail(body))

Assembled(body) ==
    IF ReadsOpenAI(translator)
    THEN OpenAIResponse(TRUE, \E i \in 1..Len(body) : body[i].hasChoices, DeltaTexts(body),
                        body[Len(body)].finish, TRUE)
    ELSE GeminiResponse(TRUE, TRUE, AllParts(body), body[Len(body)].finish)

\* what the unary translator of the same package returns for that output
UnaryOf(body) ==
    IF translator = "translators.TranslateOpenAIStreamToAnthropicSSE"
    THEN TranslateOpenAIToAnthropic(Assembled(body))
    ELSE IF translator = "openai.Translator.StreamToAnthropic"
    THEN OpenAIResponseToAnthropic(Assembled(body))
    ELSE IF translator = "translators.TranslateGeminiStreamToAnthropicSSE"
    THEN TranslateGeminiToAnthropic(Assembled(body))
    ELSE GeminiResponseToAnthropic(Assembled(body))

\* the in-order concatenation of the text of the content_block_delta events written
RECURSIVE StreamedText(_)
StreamedText(events) ==
    IF events = <<>> THEN <<>>
    ELSE (IF EventName(Head(events)) = "content_block_delta" THEN Str(Head(events).text) ELSE <<>>)
         \o StreamedText(Tail(events))

\* the stream translator has returned normally after reading a whole well-formed body in
\* which only the last chunk may carry a finish reason
WholeOutputStreamed ==
    /\ translator \in StreamTranslators
    /\ pc = "done" /\ ret = NoErr /\ upstream = <<>> /\ input # <<>>
    /\ \A i \in 1..Len(input) : input[i].kind = "chunk" /\ (i < Len(input) => ~IsFinish(input[i]))
    /\ UnaryOf(input).kind = "message"

\* C13: the concatenation of the text of the content_block_delta events a stream translator
\* wrote for an upstream output equals the text content its unary translator returns for
\* the same output.
C13_StreamUnaryParity ==
    WholeOutputStreamed => StreamedText(out) = Concat(UnaryOf(input).content)

\* the events of a sequence of lines: the runs of lines between blank lines
RECURSIVE Runs(_, _)
Runs(lines, run) ==
    IF lines = <<>> THEN (IF run = <<>> THEN <<>> ELSE <<run>>)
    ELSE IF Head(lines) = ""
    THEN (IF run = <<>> THEN <<>> ELSE <<run>>) \o Runs(Tail(lines), <<>>)
    ELSE Runs(Tail(lines), Append(run, Head(lines)))

\* the lines of the upstream body, comment lines left out
UpstreamLines ==
    LET kept == SelectSeq(input, LAMBDA l : l.text # ": ping")
    IN  [i \in 1..Len(kept) |-> kept[i].text]

\* C18: when the Anthropic passthrough returns, the events on the wire are the events of the
\* upstream body: the same lines in the same order, with blank lines only between events.
C18_PassthroughKeepsEvents ==
    (translator = "translators.TranslateAnthropicStreamToAnthropicSSE" /\ pc = "done" /\ ret = NoErr)
        => Runs(out, <<>>) = Runs(UpstreamLines, <<>>)

-----------------------------------------------------------------------------
(* Properties of the request handler                                       *)

\* the request is one the handler must reject
InvalidRequest(r) == r.malformed \/ r.Model = EmptyStr \/ r.MaxTokens <= 0 \/ r.NMessages = 0

\* C19: a request with a malformed body, an empty model, max_tokens <= 0 or no messages is
\* answered 400 invalid_request_error, and neither ParseModel nor an upstream call ran for it.
C19_InvalidRequestRejected ==
    (resp.status # 0 /\ InvalidRequest(req)) =>
        /\ resp.status = 400
        /\ resp.type = "invalid_request_error"
        /\ ~Resolved
        /\ calls = <<>>

\* a request with max_tokens <= 0 and a route the configuration serves was rejected
C19_Witness ==
    /\ resp.status = 400
    /\ ~req.malformed /\ req.MaxTokens <= 0 /\ req.NMessages > 0
    /\ ParseModel(cfg, req.Model).ok

-----------------------------------------------------------------------------
(* Properties of the OpenAI stream pipeline                                *)

\* the translator returned an error of the upstream body (parse or read)
UpstreamErrorReturned ==
    /\ pc \in {"done", "closed"}
    /\ ret.fmt \in {"failed to parse chunk: %w", "scanner error: %w"}

\* the chunk at position n of the body translates to at least one event
HasEvents(n) ==
    /\ input[n].kind = "chunk"
    /\ TranslateOpenAIStreamToAnthropicSSE(input[n]).events # <<>>

\* C14: events are written in the order of the chunks they are from, and when an upstream
\* parse or read error is returned the events of every chunk before the failing one have
\* been written.
C14_EventsInChunkOrder ==
    /\ \A i, j \in 1..Len(origin) : i < j => origin[i] <= origin[j]
    /\ Len(origin) = Len(out)
    /\ UpstreamErrorReturned =>
          \A n \in 1..(Len(Consumed) - 1) :
              HasEvents(n) => \E i \in 1..Len(origin) : origin[i] = n

\* a parse error was returned after the events of two earlier chunks were written
C14_Witness ==
    /\ UpstreamErrorReturned
    /\ ret.fmt = "failed to parse chunk: %w"
    /\ Len(out) >= 2
    /\ origin[1] < origin[Len(origin)]

\* C16: once a write to the client has failed, no further event is written and no further
\* chunk is read from the upstream body, and when the handler has returned the upstream body
\* has been closed.
C16_DisconnectClosesUpstream ==
    /\ [][ret = ErrWrite => (out' = out /\ upstream' = upstream)]_vars
    /\ []((pc = "closed" /\ ret = ErrWrite) => "body" \in closed)

\* C28: the goroutine of ParseOpenAIStream is never left blocked: whenever no step of the
\* translator, the handler or the goroutine can be taken any more, the goroutine has ended and
\* both of its channels are closed.
C28_ParserGoroutineTerminates ==
    (scanner # "none" /\ ~ENABLED NextPipeline) =>
        /\ scanner = "exit"
        /\ {"chunks", "errs"} \subseteq closed

-----------------------------------------------------------------------------
(* Properties of the unary response translators                            *)

\* C29: for an upstream body that is valid JSON an OpenAI unary translator returns a message
\* or an error and does not panic, and it returns an error when the body has no choices or
\* no usage object.
C29_UnaryTranslatorNeverAborts ==
    (/\ translator \in ResponseTranslators /\ TranslatesOpenAI(translator)
     /\ pc = "done" /\ input[1].kind = "response")
        => /\ msg.kind \in {"message", "error"}
           /\ (~input[1].hasChoices \/ ~input[1].hasUsage) => msg.kind = "error"

-----------------------------------------------------------------------------
(* Properties of startup and the health endpoints                          *)

\* the names of the configured backends
BackendNames == {cfg.Providers[i].Name : i \in 1..Len(cfg.Providers)}

\* the status the readiness report owes a backend
ExpectedStatus(p) ==
    IF p.ParsedAPIKey # EmptyStr \/ p.IsBypass THEN "configured" ELSE "not_configured"

\* C21: GET /health/ready answers 200 on every validated configuration, and its report
\* lists exactly the configured backend names, each 'configured' when it has a resolved
\* secret or forwards the client's key and 'not_configured' otherwise, with the counts of
\* backends and aliases.
C21_ReadyReport ==
    (phase = "serving" /\ resp.type = "health") =>
        /\ resp.status = 200
        /\ DOMAIN resp.report.providers = BackendNames
        /\ \A i \in 1..Len(cfg.Providers) :
              resp.report.providers[cfg.Providers[i].Name] = ExpectedStatus(cfg.Providers[i])
        /\ {"total_providers", "total_mappings"} \subseteq DOMAIN resp.report
        /\ resp.report.total_providers = Len(cfg.Providers)
        /\ resp.report.total_mappings = Cardinality(DOMAIN cfg.Mappings)

\* C22: in every configuration the server starts with, backend names are pairwise distinct
\* and every backend has at least one model and no empty model name; so a document with a
\* duplicate name or an empty models list never gets past loading.
C22_AcceptedBackendsWellFormed ==
    (phase = "serving") =>
        /\ \A i, j \in 1..Len(cfg.Providers) :
              i # j => cfg.Providers[i].Name # cfg.Providers[j].Name
        /\ \A i \in 1..Len(cfg.Providers) :
              /\ Len(cfg.Providers[i].Models) >= 1
              /\ \A k \in 1..Len(cfg.Providers[i].Models) : cfg.Providers[i].Models[k] # EmptyStr

\* a configuration with two backends was accepted
C22_Witness ==
    /\ phase = "serving"
    /\ Len(cfg.Providers) = 2
    /\ loadErr = NoErr

\* the rules of one backend, in the order the document order gives them
RuleOrder == <<"name", "unique", "kind", "base_url", "credential", "models", "vertex">>

\* backend i of document c breaks the rule called rule, in environment e
RuleViolated(c, e, i, rule) ==
    LET b == c.Providers[i]
    IN  CASE rule = "name" -> b.Name = EmptyStr
          [] rule = "unique" -> \E j \in 1..(i - 1) : c.Providers[j].Name = b.Name
          [] rule = "kind" -> b.Type = EmptyStr
          [] rule = "base_url" -> b.BaseURL = EmptyStr
          [] rule = "credential" ->
                \/ b.APIKey = EmptyStr
                \/ /\ b.APIKey # EmptyStr
                   /\ b.APIKey[1] = "env:"
                   /\ (Len(b.APIKey) = 1 \/ Getenv(e, Tail(b.APIKey)) = EmptyStr)
          [] rule = "models" ->
                \/ Len(b.Models) = 0
                \/ \E k \in 1..Len(b.Models) : b.Models[k] = EmptyStr
          [] rule = "vertex" ->
                b.UseVertexAuth /\ (b.VertexProject = EmptyStr \/ b.VertexLocation = EmptyStr)

\* the messages that report a breach of the rule called rule
RuleMessages(rule) ==
    CASE rule = "name" -> {"provider %d: name is required"}
      [] rule = "unique" -> {"duplicate provider name: %s"}
      [] rule = "kind" -> {"provider %s: type is required"}
      [] rule = "base_url" -> {"provider %s: api_base_url is required"}
      [] rule = "credential" ->
            {"provider %s: api_key is required", "provider %s: api_key cannot be empty",
             "provider %s: env: mode requires an environment variable name",
             "provider %s: environment variable '%s' is not set or is empty"}
      [] rule = "models" ->
            {"provider %s: models list is required and must not be empty",
             "provider %s: model %d: model name cannot be empty"}
      [] rule = "vertex" ->
            {"provider %s: vertex_project is required when use_vertex_auth is true",
             "provider %s: vertex_location is required when use_vertex_auth is true"}

\* the breaches of backend rules in document c: pairs <<backend, position of the rule>>
BackendViolations(c, e) ==
    {v \in (1..Len(c.Providers)) \X (1..Len(RuleOrder)) : RuleViolated(c, e, v[1], RuleOrder[v[2]])}

\* the breach that comes first: the earliest backend, and its earliest rule
FirstBackendViolation(c, e) ==
    CHOOSE v \in BackendViolations(c, e) :
        \A w \in BackendViolations(c, e) : v[1] < w[1] \/ (v[1] = w[1] /\ v[2] <= w[2])

PortViolated(c) == c.Port < 1 \/ c.Port > 65535

\* alias a of document c breaks a rule of aliases
AliasViolated(c, a) ==
    \/ a = EmptyStr
    \/ c.Mappings[a] = EmptyStr
    \/ ~ContainsSlash(c.Mappings[a])
    \/ ParseModelMapping(c.Mappings[a])[1] = EmptyStr
    \/ ParseModelMapping(c.Mappings[a])[2] = EmptyStr
    \/ \A i \in 1..Len(c.Providers) : c.Providers[i].Name # ParseModelMapping(c.Mappings[a])[1]

\* C23: validation is fail-fast in document order. Loading a document that breaks several
\* rules reports the breach that comes first: the port; then the backends in declaration
\* order, and within one backend name, uniqueness, kind, base URL, credential, model list,
\* Vertex project/location; then the aliases. A load that reports an error hands no
\* configuration to the server.
C23_FailFastInDocumentOrder ==
    [][(phase = "boot" /\ phase' # "boot") =>
          /\ (loadErr' # NoErr) <=> (phase' = "exited")
          /\ PortViolated(cfg) =>
                /\ loadErr' # NoErr
                /\ loadErr'.cause[1].fmt = "invalid server port: %d"
          /\ (~PortViolated(cfg) /\ BackendViolations(cfg, env) # {}) =>
                /\ loadErr' # NoErr
                /\ loadErr'.cause[1].fmt
                      \in RuleMessages(RuleOrder[FirstBackendViolation(cfg, env)[2]])
          /\ (/\ ~PortViolated(cfg)
              /\ BackendViolations(cfg, env) = {}
              /\ \E a \in DOMAIN cfg.Mappings : AliasViolated(cfg, a)) =>
                /\ loadErr' # NoErr
                /\ \E a \in DOMAIN cfg.Mappings :
                      /\ AliasViolated(cfg, a)
                      /\ loadErr'.cause[1] = validateMapping(cfg', a)
      ]_vars

\* backend i of document c names an environment variable that is unset or empty in e
UnsetIndirect(c, e, i) ==
    /\ c.Providers[i].APIKey # EmptyStr
    /\ c.Providers[i].APIKey[1] = "env:"
    /\ Len(c.Providers[i].APIKey) > 1
    /\ Getenv(e, Tail(c.Providers[i].APIKey)) = EmptyStr

\* C24: once loading has succeeded, every backend whose api_key is neither bypass nor
\* forward holds a non-empty resolved secret. Loading a document with a backend whose
\* api_key is env:NAME with NAME unset or empty fails, and when that is the document's first
\* breach the error is "provider <name>: environment variable '<NAME>' is not set or is
\* empty".
C24_IndirectCredentialsResolved ==
    /\ [](phase = "serving" =>
            \A i \in 1..Len(cfg.Providers) :
                cfg.Providers[i].APIKey \notin {<<"bypass">>, <<"forward">>}
                    => cfg.Providers[i].ParsedAPIKey # EmptyStr)
    /\ [][(phase = "boot" /\ phase' # "boot") =>
            \A i \in 1..Len(cfg.Providers) :
                UnsetIndirect(cfg, env, i) =>
                    /\ phase' = "exited"
                    /\ (/\ ~PortViolated(cfg)
                        /\ FirstBackendViolation(cfg, env) = <<i, 5>>) =>
                          loadErr' = Wrap("invalid configuration: %w",
                              Err("provider %s: environment variable '%s' is not set or is empty",
                                  <<cfg.Providers[i].Name, Tail(cfg.Providers[i].APIKey)>>))
          ]_vars

\* the server runs with a backend whose secret came from the environment
C24_Witness ==
    /\ phase = "serving"
    /\ \E i \in 1..Len(cfg.Providers) :
          /\ cfg.Providers[i].APIKey = <<"env:", "K">>
          /\ cfg.Providers[i].ParsedAPIKey = Getenv(env, <<"K">>)
          /\ cfg.Providers[i].ParsedAPIKey # EmptyStr

\* C25: validating a backend whose api_key is the empty string fails with exactly the
\* message "provider <name>: api_key cannot be empty" (stated for the documents where the
\* empty api_key is the first breach, the one validation reports).
C25_EmptyKeyMessage ==
    [][(phase = "boot" /\ phase' # "boot") =>
          \A i \in 1..Len(cfg.Providers) :
              (/\ cfg.Providers[i].APIKey = EmptyStr
               /\ ~PortViolated(cfg)
               /\ FirstBackendViolation(cfg, env) = <<i, 5>>) =>
                  /\ phase' = "exited"
                  /\ loadErr'.cause = <<Err("provider %s: api_key cannot be empty",
                                            <<cfg.Providers[i].Name>>)>>
      ]_vars

\* C26: loading a document whose server port is outside 1..65535 fails with
\* "invalid server port: <n>"; in particular port = 0 is rejected with
\* "invalid server port: 0".
C26_PortOutOfRangeRejected ==
    [][(phase = "boot" /\ phase' # "boot" /\ (cfg.Port < 1 \/ cfg.Port > 65535)) =>
          /\ phase' = "exited"
          /\ loadErr'.cause = <<Err("invalid server port: %d", <<Itoa(cfg.Port)>>)>>
      ]_vars

\* C30: validation is deterministic: the result Validate returned for the loaded document
\* and environment is the only result it can return for them, also when two or more
\* aliases each break a rule.
C30_ValidateDeterministic ==
    (phase \in {"serving", "exited"}) =>
        Validate(cfg, env) = {IF loadErr = NoErr THEN NoErr ELSE loadErr.cause[1]}

\* a secret value different from every secret of the documents, environments and requests
OtherSecret == <<"other">>

\* the values a secret k may be exchanged for: a present secret stays present
SecretVariants(k) == IF k = EmptyStr THEN {EmptyStr} ELSE {k, OtherSecret}

\* the environments that differ from e only in the values of variables that are set
EnvVariants(e) ==
    {f \in [DOMAIN e -> UNION {SecretVariants(e[n]) : n \in DOMAIN e}] :
        \A n \in DOMAIN e : f[n] \in SecretVariants(e[n])}

\* an api_key that is the secret itself (not bypass, forward or env:NAME)
IsDirectSecret(k) ==
    /\ k # EmptyStr
    /\ k \notin {<<"bypass">>, <<"forward">>}
    /\ k[1] # "env:"

BackendVariants(b) ==
    IF IsDirectSecret(b.APIKey) THEN {b, [b EXCEPT !.APIKey = OtherSecret]} ELSE {b}

\* the documents that differ from c only in the values of directly configured keys
ConfigVariants(c) ==
    {[c EXCEPT !.Providers = ps] :
        ps \in {f \in [1..Len(c.Providers) ->
                          UNION {BackendVariants(c.Providers[i]) : i \in 1..Len(c.Providers)}] :
                   \A i \in 1..Len(c.Providers) : f[i] \in BackendVariants(c.Providers[i])}}

\* the records a start-up with document c, environment e and verbosity v can write
StartupRecords(c, e, v) ==
    LET loaded == ParseAPIKeys(setDefaults(c), e)
    IN  {runProxyLog(loaded, IF x = NoErr THEN NoErr
                             ELSE Wrap("invalid configuration: %w", x), v) :
            x \in Validate(loaded, e)}

\* the records the handling of request r writes with translator t and upstream outcome o
RequestRecords(c, r, t, o) ==
    requestLog(c, r) \o
    (IF requestError(r) = NoErr /\ ParseModel(c, r.Model).ok
     THEN dispatchLog(c, r, ParseModel(c, r.Model), t, o)
     ELSE <<>>)

====
